---- MODULE Spec2Model ----
(***************************************************************************)
(* Model of the award_archive ingest-merge core:                           *)
(*   storage/hashing.py   compute_row_hash, add_metadata_columns           *)
(*   storage/delta.py     _write, save_to_delta, _merge_to_delta,          *)
(*                        _execute_merge                                   *)
(*   pipeline/ingest.py   _fetch_availability, ingest_availability         *)
(* The Delta table store (deltalake) is modelled by its contract as the    *)
(* code uses it: open at a version, write (overwrite/append), and a merge  *)
(* that commits atomically against the version it was opened at.           *)
(***************************************************************************)
EXTENDS Integers, Sequences, FiniteSets, TLC

(***************************************************************************)
(* Bounds of the model                                                     *)
(***************************************************************************)
NumKeys == 3
NumVals == 2
MaxBatch == 3
MaxCalls == 3
MaxUpstream == 2
MaxPageRows == 1
MaxRuns == 2
NumProcs == 2
MaxConcCalls == 1
NumSources == 3
MaxFrontPages == 2
MaxRequests == 3
MaxLatency == 2
MaxGap == 2
MaxIprRequests == 5
MaxIprDelay == 1
MaxOversleep == 1
NumTimes == 2
MaxFrameRows == 2
MaxWriteCalls == 2
MaxStartSkip == 2
MaxPageSize == 2
MaxOffsetPages == 3
MaxSaves == 2
MaxHotels == 31
MaxCap == 2

(***************************************************************************)
(* Program constants                                                       *)
(***************************************************************************)
MAX_MERGE_RETRIES == 5
RETRY_DELAY_SECONDS == 2
MAX_FETCH_TRIES == 3
RATE_LIMIT_SECONDS == 1
BATCH_SIZE_HOTELS == 30
BATCH_SIZE_CALENDAR == 30
IPREFER_MAX_TRIES == 5

(***************************************************************************)
(* Data: a record is one normalised row; its merge-key tuple is the field  *)
(* key, all its other data columns together are the field data.            *)
(***************************************************************************)
Keys == 1..NumKeys
Vals == 1..NumVals
Records == [key : Keys, data : Vals]

\* A batch is one page's rows; its merge-key tuples are pairwise distinct.
Batches ==
  {b \in SUBSET Records :
     /\ b # {}
     /\ Cardinality(b) <= MaxBatch
     /\ \A r1, r2 \in b : r1.key = r2.key => r1 = r2}

KeysOf(rows) == {r.key : r \in rows}

(***************************************************************************)
(* storage/hashing.py                                                      *)
(***************************************************************************)
\* The digest of the canonical JSON of the non-excluded columns.  The
\* canonical JSON is determined by the column -> value map of the columns
\* kept (sort_keys), and the digest stands for that map.
compute_row_hash(row, exclude_cols) ==
  [c \in (DOMAIN row) \ exclude_cols |-> row[c]]

\* A hash that covers the ingestion timestamp.
MetadataCols_timestamp_hashed == {"content_hash"}

\* exclude = (hash_exclude_cols or []) + ["ingestion_timestamp", "content_hash"]
MetadataCols == {"ingestion_timestamp", "content_hash"}

\* df.copy(), the ingestion timestamp on every row, then the hash of every
\* row as it is by then.
add_metadata_columns(df, now) ==
  {LET row == [key |-> r.key, data |-> r.data, ingestion_timestamp |-> now]
   IN [key |-> row.key,
       data |-> row.data,
       ingestion_timestamp |-> row.ingestion_timestamp,
       content_hash |-> compute_row_hash(row, MetadataCols)] : r \in df}

(***************************************************************************)
(* The table store                                                         *)
(***************************************************************************)
NoTable == [exists |-> FALSE, version |-> 0, rows |-> {}]

\* write_deltalake(mode): overwrite replaces the content, append adds to it;
\* either commits one new version (the first write creates the table).
_write(tbl, df, mode) ==
  [exists |-> TRUE,
   version |-> IF tbl.exists THEN tbl.version + 1 ELSE 0,
   rows |-> IF mode = "overwrite" THEN df ELSE tbl.rows \cup df]

\* A merge without its predicate: every incoming row matches every stored row.
Matches_every_row(t, df) == df

\* predicate: target.k = source.k for every merge key k
Matches(t, df) == {s \in df : s.key = t.key}

\* An update of every matched row, equal hashes included.
when_matched_update_all(t, df) == Matches(t, df)

\* when_matched_update(predicate = target.content_hash != source.content_hash)
when_matched_update(t, df) ==
  {s \in Matches(t, df) : t.content_hash # s.content_hash}

\* updates = {col: source.col for col in df.columns}
UpdatedRow(t, s) ==
  [c \in DOMAIN t |-> IF c \in DOMAIN s THEN s[c] ELSE t[c]]

\* An insert of every incoming row, matched or not.
when_not_matched_insert_all_unconditional(target, df) == df

\* when_not_matched_insert_all()
when_not_matched_insert_all(target, df) ==
  {s \in df : \A t \in target : t.key # s.key}

\* dt.merge(...).execute(): the rows of the table after the merge
MergeRows(target, df) ==
  {t \in target : when_matched_update(t, df) = {}}
    \cup {UpdatedRow(t, s) : <<t, s>> \in
            {<<t, s>> \in target \X df : s \in when_matched_update(t, df)}}
    \cup when_not_matched_insert_all(target, df)

\* What one merge did to the table (the store's metrics; the code drops them).
MergeMetrics(target, df) ==
  [updated |-> {t.key : t \in {t \in target : when_matched_update(t, df) # {}}},
   inserted |-> KeysOf(when_not_matched_insert_all(target, df))]

(***************************************************************************)
(* storage/delta.py: one merge attempt on a table nobody else writes       *)
(***************************************************************************)
\* _execute_merge: the table after the attempt
ExecuteMergeTable(tbl, df) ==
  IF ~tbl.exists
    THEN _write(tbl, df, "overwrite")
    ELSE [exists |-> TRUE,
          version |-> tbl.version + 1,
          rows |-> MergeRows(tbl.rows, df)]

\* The dict of the merge branch on both branches.
ExecuteMergeResult_merge_only(tbl, df) ==
  [merge_completed |-> TRUE, table_created |-> FALSE]

\* _execute_merge: the dict it returns
ExecuteMergeResult(tbl, df) ==
  IF ~tbl.exists
    THEN [rows_inserted |-> Cardinality(df), table_created |-> TRUE]
    ELSE [merge_completed |-> TRUE, table_created |-> FALSE]

\* save_to_delta: the stats it builds before dispatching on mode
BaseStats(df, mode, now) ==
  [input_rows |-> Cardinality(df), mode |-> mode, timestamp |-> now]

VARIABLES
  table,        \* the Delta table at s3_path
  clock,        \* datetime.now(UTC), one tick per save_to_delta call
  calls,        \* number of save_to_delta calls made
  prev,         \* the table before the last call
  sameBatch,    \* the last call's batch is the batch of the call before it
  lastBatch,    \* the batch of the last call
  lastDf,       \* the stamped batch of the last call
  lastStats,    \* the dict the last call returned
  lastMetrics   \* what the last call's merge did to the table

mergeVars ==
  <<table, clock, calls, prev, sameBatch, lastBatch, lastDf, lastStats, lastMetrics>>

VARIABLES
  upstream,     \* the upstream API's pages: a fixed sequence of [rows, hasMore]
  max_pages,    \* <<>> for None, <<n>> for max_pages = n
  run,          \* number of ingest_availability runs started
  pc,           \* where the current run is
  page,         \* ingest_availability's locals ...
  total_records,
  total_input_rows,
  rows_written,
  rows_inserted,
  table_created,
  last_timestamp,
  tries,        \* _fetch_availability: attempts made for the current page
  response,     \* the AvailabilityResponse of the current page
  df,           \* save_to_delta: the stamped page
  attempt,      \* _merge_to_delta: the loop variable
  conflicts,    \* attempts of the current merge call that raised a conflict
  others,       \* attempts of the current merge call that raised another error
  sleeps,       \* the delays the current merge call slept
  page_stats,   \* what save_to_delta returned for the current page
  outcome,      \* what the run returned, or the exception it raised
  requests,     \* the skip of every request the run issued, in order
  fetched,      \* the pages whose request returned a response, in order
  failures,     \* what the failed attempts for the current page raised, in order
  merged,       \* the pages whose save_to_delta returned, in order
  runTables     \* the table's rows at the end of each finished run

ingestVars ==
  <<upstream, max_pages, run, pc, page, total_records, total_input_rows,
    rows_written, rows_inserted, table_created, last_timestamp, tries, response,
    df, attempt, conflicts, others, sleeps, page_stats, outcome, requests, fetched,
    failures, merged, runTables>>

VARIABLES
  cpc,          \* per pipeline: where its save_to_delta call is
  cdf,          \* per pipeline: the stamped batch of its call
  cattempt,     \* per pipeline: _merge_to_delta's loop variable
  csnap,        \* per pipeline: the table as DeltaTable(s3_path) loaded it
  ccalls,       \* per pipeline: calls started
  initTable,    \* the table before any pipeline started
  log           \* the calls that returned, in order: batch, attempts, pipeline

concVars == <<cpc, cdf, cattempt, csnap, ccalls, initTable, log>>

VARIABLES
  front,        \* which front end runs: the server's bulk endpoint, its
                \* background task, or the CLI command seats
  api_key,      \* whether SEATS_AERO_API_KEY is set
  fpc,          \* where the front end is
  fidx,         \* the position of its loop over the source list
  results,      \* what the ingestion of each source handed to its caller
  summary,      \* what the front end reports at its end
  attempted,    \* the sources for which ingestion was attempted, in order
  runs          \* what each attempted ingestion did: its result or its exception

frontVars == <<front, api_key, fpc, fidx, results, summary, attempted, runs>>

VARIABLES
  rnow,         \* the time, in seconds
  rpc,          \* where the client is in _request
  starts,       \* the time at which each HTTP request was started, in order
  slept,        \* how long each time.sleep of _request lasted, in order
  ended         \* how each call of _request ended, in order

rateVars == <<rnow, rpc, starts, slept, ended>>

VARIABLES
  hrow,         \* a row: its columns in order, each a <<name, value>> pair
  hperm,        \* the same row with its columns in another order
  htimes,       \* the two times at which the row is stamped
  hpc,          \* what has been computed
  hashes,       \* compute_row_hash of hrow and of hperm
  stamps        \* add_metadata_columns of hrow at the two times

hashVars == <<hrow, hperm, htimes, hpc, hashes, stamps>>

VARIABLES
  srow,         \* a row, as hrow
  scol,         \* the column of the row whose value is changed
  sval,         \* the value it is changed to
  sexcl,        \* exclude_cols / hash_exclude_cols
  spc,          \* what has been computed
  sout          \* the hashes of the row before and after the change

sensVars == <<srow, scol, sval, sexcl, spc, sout>>

VARIABLES
  binput,       \* the frame as the caller built it: its rows in order
  bdf,          \* the caller's frame object
  btime,        \* datetime.now(UTC) when add_metadata_columns runs
  bpc,          \* whether add_metadata_columns has returned
  bout          \* the frame add_metadata_columns returned

stampVars == <<binput, bdf, btime, bpc, bout>>

VARIABLES
  warg,         \* the mode argument of the last call: <<>> when it was left out
  wmeta,        \* the add_metadata argument of the last call
  writes,       \* the mode of every _write call the last call made, in order
  stampings     \* the number of add_metadata_columns calls the last call made

writeVars == <<warg, wmeta, writes, stampings>>

VARIABLES
  arg_start_skip,  \* the start_skip argument of the run
  arg_page_size,   \* the page_size argument of the run
  calls_made       \* every get_bulk_availability call of the run, in order:
                   \* the page it was made for, its skip, its take, whether
                   \* it returned

offsetVars == <<arg_start_skip, arg_page_size, calls_made>>

VARIABLES
  na_as_text,   \* what astype(str) makes of a missing value in the pandas installed
  store,        \* the Delta table at s3_path, its cells typed
  saves,        \* number of save_to_delta calls made
  stampedDf,    \* the last call's frame after add_metadata_columns
  handed,       \* the frame the last call handed to the table store, <<>> if none
  writePath,    \* the store operation of the last call
  saveResult,   \* the dict the last call returned, or the exception it raised
  modesUsed,    \* the modes of the calls made so far
  saveArgs      \* the mode and merge_keys arguments of the last call

saveVars == <<na_as_text, store, saves, stampedDf, handed, writePath, saveResult, modesUsed, saveArgs>>

VARIABLES
  directory,      \* the hotel links of the directory page, in order
  arg_max_hotels, \* max_hotels: <<>> for None, <<n>> for n
  include_points, \* the include_points argument
  include_cash,   \* the include_cash argument
  ipc,            \* where ingest_iprefer is
  links,          \* ingest_iprefer_hotels: links, after the cut to max_hotels
  hdone,          \* the number of links in the batches taken so far
  hbatch,         \* the current batch of links
  batch_details,  \* the details fetched for the current batch, in order
  total_hotels,   \* ingest_iprefer_hotels: total_hotels
  hotelsTable,    \* the hotels table: whether it exists, and its nids in order
  nids,           \* ingest_iprefer_availability: nids
  cdone,          \* the number of nids in the batches taken so far
  batch_nids,     \* the current batch of nids
  batch_availability, \* the availability fetched for the current batch
  availTable,     \* the availability table: the (nid, is_points) it holds
  events,         \* every fetch and merge the run made, in order
  iresult         \* what ingest_iprefer returned, or the stage that raised

ipreferVars ==
  <<directory, arg_max_hotels, include_points, include_cash, ipc, links, hdone,
    hbatch, batch_details, total_hotels, hotelsTable, nids, cdone, batch_nids,
    batch_availability, availTable, events, iresult>>

\* The variables of the specifications that do not involve the table.
auxVars == <<frontVars, rateVars, hashVars, sensVars, stampVars, writeVars, offsetVars, saveVars, ipreferVars>>

vars == <<mergeVars, ingestVars, concVars, auxVars>>

Procs == 1..NumProcs

\* The variables of the concurrent pipelines while none runs.
ConcIdle ==
  /\ cpc = [p \in Procs |-> "idle"]
  /\ cdf = [p \in Procs |-> {}]
  /\ cattempt = [p \in Procs |-> 0]
  /\ csnap = [p \in Procs |-> NoTable]
  /\ ccalls = [p \in Procs |-> 0]
  /\ initTable = NoTable
  /\ log = <<>>

\* The variables of the front ends while none runs.
FrontIdle ==
  /\ front = "none"
  /\ api_key = TRUE
  /\ fpc = "idle"
  /\ fidx = 0
  /\ results = <<>>
  /\ summary = <<>>
  /\ attempted = <<>>
  /\ runs = <<>>

\* The variables of the API client while it is not used.
RateIdle ==
  /\ rnow = 0
  /\ rpc = "idle"
  /\ starts = <<>>
  /\ slept = <<>>
  /\ ended = <<>>

\* The variables of the hashing functions while they are not called.
HashIdle ==
  /\ hrow = <<>>
  /\ hperm = <<>>
  /\ htimes = <<1, 1>>
  /\ hpc = "idle"
  /\ hashes = <<>>
  /\ stamps = <<>>

\* The variables of the changed-row hashing while it is not run.
SensIdle ==
  /\ srow = <<>>
  /\ scol = "a"
  /\ sval = [type |-> "none", text |-> "None"]
  /\ sexcl = {}
  /\ spc = "idle"
  /\ sout = <<>>

\* The variables of the stamping of a frame while it is not run.
StampIdle ==
  /\ binput = <<>>
  /\ bdf = <<>>
  /\ btime = 1
  /\ bpc = "idle"
  /\ bout = <<>>

\* The variables of the plain writes while none was made.
WriteIdle ==
  /\ warg = <<>>
  /\ wmeta = TRUE
  /\ writes = <<>>
  /\ stampings = 0

\* The variables of the offset model while it is not run.
OffsetIdle ==
  /\ arg_start_skip = 0
  /\ arg_page_size = 1
  /\ calls_made = <<>>

\* The variables of the typed saves while none was made.
SaveIdle ==
  /\ na_as_text = FALSE
  /\ store = NoTable
  /\ saves = 0
  /\ stampedDf = {}
  /\ handed = <<>>
  /\ writePath = "none"
  /\ saveResult = <<>>
  /\ modesUsed = {}
  /\ saveArgs = <<>>

\* The variables of the iPrefer pipeline while it does not run.
IpreferIdle ==
  /\ directory = <<>>
  /\ arg_max_hotels = <<>>
  /\ include_points = TRUE
  /\ include_cash = TRUE
  /\ ipc = "idle"
  /\ links = <<>>
  /\ hdone = 0
  /\ hbatch = <<>>
  /\ batch_details = <<>>
  /\ total_hotels = 0
  /\ hotelsTable = [exists |-> FALSE, nids |-> <<>>]
  /\ nids = <<>>
  /\ cdone = 0
  /\ batch_nids = <<>>
  /\ batch_availability = <<>>
  /\ availTable = {}
  /\ events = <<>>
  /\ iresult = <<>>

AuxIdle == FrontIdle /\ RateIdle /\ HashIdle /\ SensIdle /\ StampIdle /\ WriteIdle /\ OffsetIdle /\ SaveIdle /\ IpreferIdle

\* The variables of the ingest pipeline while no pipeline runs.
IngestIdle ==
  /\ upstream = <<>>
  /\ max_pages = <<>>
  /\ run = 0
  /\ pc = "idle"
  /\ page = 0
  /\ total_records = 0
  /\ total_input_rows = 0
  /\ rows_written = 0
  /\ rows_inserted = 0
  /\ table_created = FALSE
  /\ last_timestamp = 0
  /\ tries = 0
  /\ response = [rows |-> {}, hasMore |-> FALSE]
  /\ df = {}
  /\ attempt = 0
  /\ conflicts = 0
  /\ others = 0
  /\ sleeps = <<>>
  /\ page_stats = <<>>
  /\ outcome = <<>>
  /\ requests = <<>>
  /\ fetched = <<>>
  /\ failures = <<>>
  /\ merged = <<>>
  /\ runTables = <<>>

(***************************************************************************)
(* SpecMerge: one caller issues save_to_delta(mode = "merge") calls one    *)
(* after another on one table path; the store raises nothing.              *)
(***************************************************************************)
GhostsIdle ==
  /\ calls = 0
  /\ prev = NoTable
  /\ sameBatch = FALSE
  /\ lastBatch = {}
  /\ lastDf = {}
  /\ lastStats = <<>>
  /\ lastMetrics = [updated |-> {}, inserted |-> {}]

MergeIdle ==
  /\ table = NoTable
  /\ clock = 0
  /\ GhostsIdle

InitMerge == MergeIdle /\ IngestIdle /\ ConcIdle /\ AuxIdle

\* save_to_delta(df, s3_path, mode="merge", merge_keys=[key])
SaveToDeltaMerge(batch) ==
  /\ calls < MaxCalls
  /\ LET now == clock + 1
         stamped == add_metadata_columns(batch, now)
     IN /\ clock' = now
        /\ calls' = calls + 1
        /\ prev' = table
        /\ sameBatch' = (calls >= 1 /\ batch = lastBatch)
        /\ lastBatch' = batch
        /\ lastDf' = stamped
        /\ table' = ExecuteMergeTable(table, stamped)
        /\ lastStats' =
             ExecuteMergeResult(table, stamped) @@ BaseStats(stamped, "merge", now)
        /\ lastMetrics' =
             IF table.exists
               THEN MergeMetrics(table.rows, stamped)
               ELSE [updated |-> {}, inserted |-> KeysOf(stamped)]
  /\ UNCHANGED <<ingestVars, concVars, auxVars>>

NextMerge == \E batch \in Batches : SaveToDeltaMerge(batch)

SpecMerge == InitMerge /\ [][NextMerge]_vars

(***************************************************************************)
(* Claims checked under SpecMerge                                          *)
(***************************************************************************)
\* C2: merging the same batch twice in succession leaves the table after the
\* second merge identical to the table after the first, and the second merge
\* updates no row and inserts no row.
C2_BatchIdempotence ==
  sameBatch =>
    /\ table.rows = prev.rows
    /\ lastMetrics.updated = {}
    /\ lastMetrics.inserted = {}

\* The same batch has just been merged a second time, into an existing table.
C2_Witness ==
  /\ sameBatch
  /\ calls = 2
  /\ prev.exists
  /\ Cardinality(lastBatch) >= 2

\* C3: in a merge into an existing table, an incoming row whose key and hash
\* are stored leaves the stored row as it was; one whose key is stored with
\* another hash replaces the stored row's columns; one whose key is not
\* stored is inserted.
SameStored(s) ==
  {t \in prev.rows : t.key = s.key /\ t.content_hash = s.content_hash}

ChangedStored(s) ==
  {t \in prev.rows : t.key = s.key /\ t.content_hash # s.content_hash}

C3_DedupOnMerge ==
  prev.exists =>
    \A s \in lastDf :
      /\ SameStored(s) # {} =>
            /\ SameStored(s) \subseteq table.rows
            /\ {t \in table.rows : t.key = s.key} = SameStored(s)
      /\ ChangedStored(s) # {} =>
            /\ s \in table.rows
            /\ {t \in table.rows : t.key = s.key} = {s}
      /\ (SameStored(s) = {} /\ ChangedStored(s) = {}) =>
            /\ s \in table.rows
            /\ {t \in table.rows : t.key = s.key} = {s}

\* One merge into an existing table that skipped a row, updated a row and
\* inserted a row.
C3_Witness ==
  /\ prev.exists
  /\ \E s1, s2, s3 \in lastDf :
       /\ SameStored(s1) # {}
       /\ ChangedStored(s2) # {}
       /\ s3.key \notin KeysOf(prev.rows)
       /\ s2 \in table.rows
       /\ s3 \in table.rows
       /\ s1 \notin table.rows

C23_MergeCountsReported ==
  (calls >= 1 /\ prev.exists) =>
    /\ "rows_inserted" \in DOMAIN lastStats
    /\ "rows_updated" \in DOMAIN lastStats
    /\ lastStats.rows_inserted = Cardinality(lastMetrics.inserted)
    /\ lastStats.rows_updated = Cardinality(lastMetrics.updated)

\* C30: a merge into an existing table leaves every stored row whose key is
\* not in the incoming batch as it was, and every stored row whose key comes
\* with an equal content hash as it was, ingestion_timestamp included; so a
\* row's ingestion_timestamp changes only in a merge that changes its hash.
Untouched(t) ==
  \/ t.key \notin KeysOf(lastDf)
  \/ \E s \in lastDf : s.key = t.key /\ s.content_hash = t.content_hash

C30_MergeFrame ==
  prev.exists =>
    /\ \A t \in prev.rows :
         Untouched(t) => {u \in table.rows : u.key = t.key} = {t}
    /\ \A t \in prev.rows, u \in table.rows :
         (t.key = u.key /\ t.ingestion_timestamp # u.ingestion_timestamp)
           => t.content_hash # u.content_hash

\* One merge into an existing table met a stored row whose key it did not
\* carry, a stored row it carried with an equal hash and a later timestamp,
\* and a stored row it carried with another hash, whose timestamp changed.
C30_Witness ==
  /\ prev.exists
  /\ \E t1, t2, t3 \in prev.rows :
       /\ t1.key \notin KeysOf(lastDf)
       /\ \E s \in lastDf :
            /\ s.key = t2.key
            /\ s.content_hash = t2.content_hash
            /\ s.ingestion_timestamp # t2.ingestion_timestamp
       /\ \E s \in lastDf :
            /\ s.key = t3.key
            /\ s.content_hash # t3.content_hash
            /\ s \in table.rows
            /\ s.ingestion_timestamp # t3.ingestion_timestamp
       /\ {t1, t2} \subseteq table.rows


(***************************************************************************)
(* pipeline/ingest.py and storage/delta.py: one pipeline runs              *)
(* ingest_availability against a fixed upstream, run after run.            *)
(***************************************************************************)
\* take = page_size: the upstream returns at most page_size rows per page.
page_size == MaxPageRows
start_skip == 0

\* The rows of one upstream page: at most page_size rows, over as many merge
\* keys as the upstream has pages.
PageRows ==
  {{}} \cup {b \in Batches : Cardinality(b) <= MaxPageRows
                              /\ KeysOf(b) \subseteq 1..MaxUpstream}
Pages == [rows : PageRows, hasMore : BOOLEAN]
Upstreams == UNION {[1..n -> Pages] : n \in 0..MaxUpstream}
MaxPagesChoices == {<<>>} \cup {<<n>> : n \in 0..MaxUpstream}

EmptyPage == [rows |-> {}, hasMore |-> FALSE]

\* The upstream's answer to GET availability?skip=..&take=page_size.
UpstreamResponse(skip) ==
  LET i == ((skip - start_skip) \div page_size) + 1
  IN IF i \in DOMAIN upstream THEN upstream[i] ELSE EmptyPage

\* What a request can raise: a network error, timeout or 5xx status
\* ("transient"), a 4xx status (raise_for_status), or a body that does not
\* parse or validate ("malformed").
FetchErrors == {"transient", "http_4xx", "malformed"}

\* backoff.on_exception((httpx.HTTPError, httpx.HTTPStatusError,
\* httpx.TimeoutException)): every httpx error, whatever the status.
FetchRetryable(e) == e \in {"transient", "http_4xx"}

\* One try more than max_tries.
ShouldRetryFetch_one_more(e, n) == FetchRetryable(e) /\ n <= MAX_FETCH_TRIES

\* backoff.on_exception(max_tries=3): after the n-th try raised e, another try
\* is made if e is one of the listed exceptions and n < max_tries
ShouldRetryFetch(e, n) == FetchRetryable(e) /\ n < MAX_FETCH_TRIES

\* An exception of the table store: whether it is a concurrent-write
\* conflict, and whether its message contains "concurrent" or "conflict".
StoreErrors ==
  {[conflict |-> TRUE, mentions |-> TRUE],
   [conflict |-> FALSE, mentions |-> FALSE],
   [conflict |-> FALSE, mentions |-> TRUE]}

\* is_conflict = "concurrent" in error_msg or "conflict" in error_msg
is_conflict(e) == e.mentions

\* A retry after the last attempt too.
ShouldRetryMerge_one_more(e, att) == is_conflict(e) /\ att <= MAX_MERGE_RETRIES

\* if is_conflict and attempt < MAX_MERGE_RETRIES: sleep, else: raise
ShouldRetryMerge(e, att) == is_conflict(e) /\ att < MAX_MERGE_RETRIES

\* A loop that merges empty pages too.
NoPageData_never(resp) == FALSE

\* if not page_data: break
NoPageData(resp) == resp.rows = {}

\* A loop that ignores hasMore.
LastPage_never(resp) == FALSE

\* if not response.hasMore: break
LastPage(resp) == ~resp.hasMore

\* A loop that runs one iteration more than max_pages.
LoopCondition_one_more == Len(max_pages) = 0 \/ page <= max_pages[1]

\* while max_pages is None or page < max_pages
LoopCondition == Len(max_pages) = 0 \/ page < max_pages[1]

mergeGhosts == <<calls, prev, sameBatch, lastBatch, lastDf, lastStats, lastMetrics>>

\* No run has been started; the upstream and max_pages are any.
RunStart ==
  /\ upstream \in Upstreams
  /\ max_pages \in MaxPagesChoices
  /\ run = 0
  /\ pc = "idle"
  /\ page = 0
  /\ total_records = 0
  /\ total_input_rows = 0
  /\ rows_written = 0
  /\ rows_inserted = 0
  /\ table_created = FALSE
  /\ last_timestamp = 0
  /\ tries = 0
  /\ response = EmptyPage
  /\ df = {}
  /\ attempt = 0
  /\ conflicts = 0
  /\ others = 0
  /\ sleeps = <<>>
  /\ page_stats = <<>>
  /\ outcome = <<>>
  /\ requests = <<>>
  /\ fetched = <<>>
  /\ failures = <<>>
  /\ merged = <<>>
  /\ runTables = <<>>

Init == MergeIdle /\ RunStart /\ ConcIdle /\ AuxIdle

\* ingest_availability is called (the first time, or again after a run that
\* returned): lines 163-173
StartRun ==
  /\ pc \in {"idle", "returned"}
  /\ run < MaxRuns
  /\ run' = run + 1
  /\ pc' = "loop"
  /\ page' = 0
  /\ total_records' = 0
  /\ total_input_rows' = 0
  /\ rows_written' = 0
  /\ rows_inserted' = 0
  /\ table_created' = FALSE
  /\ last_timestamp' = 0
  /\ tries' = 0
  /\ response' = EmptyPage
  /\ df' = {}
  /\ attempt' = 0
  /\ conflicts' = 0
  /\ others' = 0
  /\ sleeps' = <<>>
  /\ page_stats' = <<>>
  /\ outcome' = <<>>
  /\ requests' = <<>>
  /\ fetched' = <<>>
  /\ failures' = <<>>
  /\ merged' = <<>>
  /\ UNCHANGED <<mergeVars, upstream, max_pages, runTables>>
  /\ UNCHANGED <<concVars, auxVars>>

\* the while test, page += 1, and the call of _fetch_availability
LoopTest ==
  /\ pc = "loop"
  /\ IF LoopCondition
       THEN /\ page' = page + 1
            /\ tries' = 0
            /\ failures' = <<>>
            /\ pc' = "fetch"
       ELSE /\ pc' = "finish"
            /\ UNCHANGED <<page, tries, failures>>
  /\ UNCHANGED <<mergeVars, upstream, max_pages, run, total_records,
                 total_input_rows, rows_written, rows_inserted, table_created,
                 last_timestamp, response, df, attempt, conflicts, others, sleeps,
                 page_stats, outcome, requests, fetched, merged, runTables>>
  /\ UNCHANGED <<concVars, auxVars>>

\* An offset that counts the page about to be fetched as already fetched.
SkipOf_one_page_ahead(start, pg, size) == start + pg * size

\* skip = start_skip + (page - 1) * page_size
SkipOf(start, pg, size) == start + (pg - 1) * size

skip == SkipOf(start_skip, page, page_size)

\* A run that notes the exception and goes on with the next page.
Raise_continue(stage, e) ==
  /\ pc' = "loop"
  /\ outcome' = [status |-> "raised", stage |-> stage, error |-> e]
  /\ runTables' = Append(runTables, table'.rows)

\* The run ends by an exception: nothing catches it in ingest_availability.
Raise(stage, e) ==
  /\ pc' = "raised"
  /\ outcome' = [status |-> "raised", stage |-> stage, error |-> e]
  /\ runTables' = Append(runTables, table'.rows)

\* one attempt of _fetch_availability: client.get_bulk_availability(skip, take)
FetchOk ==
  /\ pc = "fetch"
  /\ tries' = tries + 1
  /\ requests' = Append(requests, skip)
  /\ fetched' = Append(fetched, page)
  /\ response' = UpstreamResponse(skip)
  /\ pc' = "fetched"
  /\ UNCHANGED <<mergeVars, upstream, max_pages, run, page, total_records,
                 total_input_rows, rows_written, rows_inserted, table_created,
                 last_timestamp, df, attempt, conflicts, others, sleeps, page_stats, outcome,
                 failures, merged, runTables>>
  /\ UNCHANGED <<concVars, auxVars>>

\* one attempt of _fetch_availability that raises e: backoff retries it while
\* it is an httpx error and fewer than max_tries attempts were made
FetchFail(e) ==
  /\ pc = "fetch"
  /\ tries' = tries + 1
  /\ requests' = Append(requests, skip)
  /\ failures' = Append(failures, e)
  /\ UNCHANGED <<mergeVars, fetched>>
  /\ IF ShouldRetryFetch(e, tries + 1)
       THEN /\ pc' = "fetch"
            /\ UNCHANGED <<outcome, runTables>>
       ELSE Raise("fetch", e)
  /\ UNCHANGED <<upstream, max_pages, run, page, total_records,
                 total_input_rows, rows_written, rows_inserted, table_created,
                 last_timestamp, response, df, attempt, conflicts, others, sleeps, page_stats,
                 merged>>
  /\ UNCHANGED <<concVars, auxVars>>

\* A page whose merge is started and left running while the loop goes on.
ProcessPage_merge_in_background ==
  /\ pc = "fetched"
  /\ total_records' = total_records + Cardinality(response.rows)
  /\ failures' = <<>>
  /\ IF NoPageData(response)
       THEN /\ pc' = "finish"
            /\ UNCHANGED <<clock, df, attempt, conflicts, others, sleeps>>
       ELSE /\ clock' = clock + 1
            /\ df' = add_metadata_columns(response.rows, clock + 1)
            /\ attempt' = 1
            /\ conflicts' = 0
            /\ others' = 0
            /\ sleeps' = <<>>
            /\ pc' = "loop"
  /\ UNCHANGED <<table, mergeGhosts, upstream, max_pages, run, page,
                 total_input_rows, rows_written, rows_inserted, table_created,
                 last_timestamp, tries, response, page_stats, outcome, requests,
                 fetched, merged, runTables>>
  /\ UNCHANGED <<concVars, auxVars>>

\* lines 190-204, and save_to_delta up to its call of _merge_to_delta; the
\* frame of _fetch_availability is gone
ProcessPage ==
  /\ pc = "fetched"
  /\ total_records' = total_records + Cardinality(response.rows)
  /\ failures' = <<>>
  /\ IF NoPageData(response)
       THEN /\ pc' = "finish"
            /\ UNCHANGED <<clock, df, attempt, conflicts, others, sleeps>>
       ELSE /\ clock' = clock + 1
            /\ df' = add_metadata_columns(response.rows, clock + 1)
            /\ attempt' = 1
            /\ conflicts' = 0
            /\ others' = 0
            /\ sleeps' = <<>>
            /\ pc' = "merge"
  /\ UNCHANGED <<table, mergeGhosts, upstream, max_pages, run, page,
                 total_input_rows, rows_written, rows_inserted, table_created,
                 last_timestamp, tries, response, page_stats, outcome, requests,
                 fetched, merged, runTables>>
  /\ UNCHANGED <<concVars, auxVars>>

\* _merge_to_delta: an attempt whose _execute_merge returns
MergeAttemptOk ==
  /\ pc = "merge"
  /\ table' = ExecuteMergeTable(table, df)
  /\ page_stats' = ExecuteMergeResult(table, df) @@ BaseStats(df, "merge", clock)
  /\ pc' = "merged"
  /\ UNCHANGED <<clock, mergeGhosts, upstream, max_pages, run, page,
                 total_records, total_input_rows, rows_written, rows_inserted,
                 table_created, last_timestamp, tries, response, df, attempt,
                 conflicts, others, sleeps, outcome, requests, fetched, failures, merged, runTables>>
  /\ UNCHANGED <<concVars, auxVars>>

\* _merge_to_delta: an attempt whose _execute_merge raises e
MergeAttemptFail(e) ==
  /\ pc = "merge"
  /\ conflicts' = conflicts + (IF e.conflict THEN 1 ELSE 0)
  /\ others' = others + (IF e.conflict THEN 0 ELSE 1)
  /\ UNCHANGED mergeVars
  /\ IF ShouldRetryMerge(e, attempt)
       THEN /\ pc' = "sleep"
            /\ UNCHANGED <<outcome, runTables>>
       ELSE Raise("merge", e)
  /\ UNCHANGED <<upstream, max_pages, run, page, total_records,
                 total_input_rows, rows_written, rows_inserted, table_created,
                 last_timestamp, tries, response, df, attempt, sleeps,
                 page_stats, requests, fetched, failures, merged>>
  /\ UNCHANGED <<concVars, auxVars>>

\* The same delay before every retry.
RetryDelay_constant(att) == RETRY_DELAY_SECONDS

\* delay = RETRY_DELAY_SECONDS * attempt
RetryDelay(att) == RETRY_DELAY_SECONDS * att

\* A loop over range(1, MAX_MERGE_RETRIES).
RangeHasNext_one_less(att) == att < MAX_MERGE_RETRIES - 1

\* for attempt in range(1, MAX_MERGE_RETRIES + 1): there is a next value
RangeHasNext(att) == att < MAX_MERGE_RETRIES

\* RuntimeError("Max retries exceeded for merge operation"), line 107
MaxRetriesExceeded ==
  [conflict |-> FALSE, mentions |-> FALSE, runtime_error |-> TRUE]

\* time.sleep(delay), then the next iteration, or the statement after the
\* loop when the range is exhausted
MergeBackoff ==
  /\ pc = "sleep"
  /\ sleeps' = Append(sleeps, RetryDelay(attempt))
  /\ UNCHANGED mergeVars
  /\ IF RangeHasNext(attempt)
       THEN /\ attempt' = attempt + 1
            /\ pc' = "merge"
            /\ UNCHANGED <<outcome, runTables>>
       ELSE /\ attempt' = attempt
            /\ Raise("merge", MaxRetriesExceeded)
  /\ UNCHANGED <<upstream, max_pages, run, page, total_records,
                 total_input_rows, rows_written, rows_inserted, table_created,
                 last_timestamp, tries, response, df, conflicts, others, page_stats,
                 requests, fetched, failures, merged>>
  /\ UNCHANGED <<concVars, auxVars>>

\* A dict in which no key is ever found.
Get_default_only(d, key, default) == default

\* dict.get(key, default)
Get(d, key, default) == IF key \in DOMAIN d THEN d[key] ELSE default

\* lines 206-213: the totals, then the hasMore test; the frames of
\* save_to_delta and _merge_to_delta are gone
Accumulate ==
  /\ pc = "merged"
  /\ total_input_rows' =
       total_input_rows + Get(page_stats, "input_rows", Cardinality(df))
  /\ rows_written' = rows_written + Get(page_stats, "rows_written", Cardinality(df))
  /\ rows_inserted' = rows_inserted + Get(page_stats, "rows_inserted", 0)
  /\ table_created' = (table_created \/ Get(page_stats, "table_created", FALSE))
  /\ last_timestamp' = Get(page_stats, "timestamp", last_timestamp)
  /\ merged' = Append(merged, page)
  /\ df' = {}
  /\ attempt' = 0
  /\ conflicts' = 0
  /\ others' = 0
  /\ sleeps' = <<>>
  /\ pc' = IF LastPage(response) THEN "finish" ELSE "loop"
  /\ UNCHANGED <<mergeVars, upstream, max_pages, run, page, total_records, tries,
                 response, page_stats, outcome, requests, fetched, failures, runTables>>
  /\ UNCHANGED <<concVars, auxVars>>

\* A run that never reports no_data.
NoDataFetched_never(n) == FALSE

\* if total_records == 0
NoDataFetched(n) == n = 0

\* lines 215-232
Finish ==
  /\ pc = "finish"
  /\ pc' = "returned"
  /\ outcome' =
       IF NoDataFetched(total_records)
         THEN [status |-> "no_data", records_fetched |-> 0]
         ELSE [status |-> "returned",
               input_rows |-> total_input_rows,
               rows_written |-> rows_written,
               rows_inserted |-> rows_inserted,
               table_created |-> table_created,
               mode |-> "merge",
               timestamp |-> last_timestamp,
               pages_fetched |-> page,
               api_records |-> total_records]
  /\ runTables' = Append(runTables, table.rows)
  /\ UNCHANGED <<mergeVars, upstream, max_pages, run, page, total_records,
                 total_input_rows, rows_written, rows_inserted, table_created,
                 last_timestamp, tries, response, df, attempt, conflicts, others, sleeps,
                 page_stats, requests, fetched, failures, merged>>
  /\ UNCHANGED <<concVars, auxVars>>

Next ==
  \/ StartRun
  \/ LoopTest
  \/ FetchOk
  \/ \E e \in FetchErrors : FetchFail(e)
  \/ ProcessPage
  \/ MergeAttemptOk
  \/ \E e \in StoreErrors : MergeAttemptFail(e)
  \/ MergeBackoff
  \/ Accumulate
  \/ Finish

Spec == Init /\ [][Next]_vars

(***************************************************************************)
(* Claims checked under Spec                                               *)
(***************************************************************************)
\* C1: after a second run of ingest_availability over the same upstream the
\* table holds exactly the rows, with the same column values (timestamps and
\* hashes included), that it held after the first run.
C1_RerunIdempotent ==
  (run = 2 /\ pc = "returned") => runTables[2] = runTables[1]

C6_NonConflictNotRetried ==
  others > 0 =>
    /\ pc = "raised"
    /\ outcome.stage = "merge"
    /\ ~outcome.error.conflict
    /\ others = 1
    /\ attempt = conflicts + 1

\* C9: the upstream is N >= 1 non-empty pages, hasMore true on pages 1..N-1
\* and false on page N, and max_pages is unset or >= N: a run whose requests
\* all succeed fetches pages 1..N once each, merges pages 1..N in order, and
\* returns without a further fetch.
ClaimedUpstream(N) ==
  /\ N \in DOMAIN upstream
  /\ \A i \in 1..N : upstream[i].rows # {} /\ (upstream[i].hasMore <=> i < N)
  /\ (Len(max_pages) = 0 \/ max_pages[1] >= N)

NoRetriedRequest ==
  \A i, j \in DOMAIN requests : requests[i] = requests[j] => i = j

C9_PaginationTermination ==
  \A N \in 1..MaxUpstream :
    (ClaimedUpstream(N) /\ NoRetriedRequest /\ run >= 1) =>
      /\ Len(requests) <= N
      /\ Len(merged) <= N
      /\ \A i \in DOMAIN requests : requests[i] = start_skip + (i - 1) * page_size
      /\ \A i \in DOMAIN merged : merged[i] = i
      /\ pc = "returned" =>
           /\ Len(requests) = N
           /\ Len(merged) = N
           /\ outcome.status = "returned"
           /\ outcome.pages_fetched = N

\* A run over a two-page upstream has returned after two fetches and merges.
C9_Witness ==
  /\ ClaimedUpstream(2)
  /\ NoRetriedRequest
  /\ pc = "returned"
  /\ Len(requests) = 2
  /\ merged = <<1, 2>>

\* C11: when max_pages is supplied, a run makes at most max_pages successful
\* page fetches and merges at most max_pages batches, and a run that returned
\* after fetching a non-empty page number max_pages has merged that page.
C11_MaxPagesBound ==
  Len(max_pages) > 0 =>
    /\ page <= max_pages[1]
    /\ Len(fetched) <= max_pages[1]
    /\ Len(merged) <= max_pages[1]
    /\ (/\ pc = "returned"
        /\ Len(fetched) = max_pages[1]
        /\ max_pages[1] >= 1
        /\ response.rows # {}) =>
          /\ Len(merged) = max_pages[1]
          /\ merged[Len(merged)] = max_pages[1]

\* A run with max_pages = 2 over an upstream that reports more pages after
\* page 2 has returned after fetching and merging pages 1 and 2.
C11_Witness ==
  /\ max_pages = <<2>>
  /\ Len(upstream) = 2
  /\ upstream[2].hasMore
  /\ pc = "returned"
  /\ fetched = <<1, 2>>
  /\ merged = <<1, 2>>

\* C12: when a fetched page has no records the run stops: the page is not
\* merged, no call of the table store is made for it, and no further page
\* is requested.
C12_EmptyPageStops ==
  (fetched # <<>> /\ response.rows = {}) =>
    /\ pc \in {"fetched", "finish", "returned"}
    /\ fetched[Len(fetched)] = page
    /\ requests[Len(requests)] = skip
    /\ \A i \in DOMAIN merged : merged[i] # page
    /\ Len(merged) = Len(fetched) - 1
    /\ attempt = 0
    /\ df = {}

\* A run has returned after a non-empty first page and an empty second page.
C12_Witness ==
  /\ pc = "returned"
  /\ fetched = <<1, 2>>
  /\ response.rows = {}
  /\ merged = <<1>>
  /\ outcome.status = "returned"

\* C13: when the fetch or the merge of page N fails for good, the error
\* leaves ingest_availability, no later page is fetched or merged, and the
\* table stays as the merges of pages 1..N-1 committed it: the table changes
\* only in a step that completes a merge, and a run that raised takes no
\* further step.
RaisedAtPage ==
  (outcome # <<>> /\ outcome.status = "raised") =>
    /\ pc = "raised"
    /\ page >= 1
    /\ merged = [i \in 1..(page - 1) |-> i]
    /\ \A i \in DOMAIN fetched : fetched[i] <= page
    /\ \A i \in DOMAIN requests : requests[i] <= skip
    /\ (outcome.stage = "fetch" => fetched = merged)
    /\ (outcome.stage = "merge" => fetched = [i \in 1..page |-> i])
    /\ runTables[Len(runTables)] = table.rows

C13_PartialRunDurable ==
  /\ []RaisedAtPage
  /\ [][/\ pc # "raised"
        /\ (table' # table => (pc = "merge" /\ pc' = "merged"))
        /\ (pc' = "raised" => (table' = table /\ merged' = merged))]_vars

\* The merge of page 2 has failed for good after page 1 was merged: the rows
\* of page 1 are in the table.
C13_Witness ==
  /\ pc = "raised"
  /\ outcome.stage = "merge"
  /\ page = 2
  /\ merged = <<1>>
  /\ table.exists
  /\ {[key |-> t.key, data |-> t.data] : t \in table.rows} = upstream[1].rows

\* The pages 1..n in order.
PagesUpTo(n) == [i \in 1..n |-> i]

\* C25: within one run the merge of page k has returned or raised before
\* the fetch of page k+1 starts; a request is issued only while no merge is
\* in progress, a merge runs only for the page fetched last, after its fetch
\* succeeded and before any further request, and each step issues at most
\* one request or makes at most one merge.
C25_PageSequencing ==
  /\ [](/\ pc = "fetch" => (attempt = 0 /\ df = {} /\ merged = PagesUpTo(page - 1))
        /\ pc \in {"merge", "sleep", "merged"} =>
             /\ fetched = PagesUpTo(page)
             /\ merged = PagesUpTo(page - 1)
             /\ requests[Len(requests)] = skip
             /\ response = UpstreamResponse(skip)
             /\ {[key |-> r.key, data |-> r.data] : r \in df} = response.rows
        /\ \A i \in DOMAIN merged : \E j \in DOMAIN fetched : fetched[j] = merged[i])
  /\ [][/\ (requests' # requests /\ requests' # <<>>) =>
             /\ pc = "fetch"
             /\ attempt = 0
             /\ Len(requests') = Len(requests) + 1
             /\ table' = table
        /\ table' # table =>
             /\ pc = "merge"
             /\ pc' = "merged"
             /\ requests' = requests
             /\ fetched[Len(fetched)] = page]_vars

\* Page 1 was fetched and merged, the first request for page 2 has failed,
\* and page 2 is about to be requested again.
C25_Witness ==
  /\ pc = "fetch"
  /\ page = 2
  /\ tries = 1
  /\ merged = <<1>>
  /\ table.exists
  /\ Len(requests) = 2

\* C27: after the k-th attempt of a merge call fails with a conflict (k in
\* 1..4) the call waits k * RETRY_DELAY_SECONDS and then runs the whole
\* attempt again, opening the table anew and creating it if it is absent;
\* after the last permitted attempt fails there is no wait.
C27_LinearBackoff ==
  /\ [](/\ \A k \in DOMAIN sleeps : sleeps[k] = k * RETRY_DELAY_SECONDS
        /\ Len(sleeps) <= MAX_MERGE_RETRIES - 1
        /\ pc \in {"merge", "merged"} =>
             (Len(sleeps) = attempt - 1 /\ conflicts + others = attempt - 1)
        /\ pc = "sleep" =>
             /\ attempt < MAX_MERGE_RETRIES
             /\ Len(sleeps) = attempt - 1
             /\ conflicts + others = attempt
        /\ (pc = "raised" /\ outcome.stage = "merge") =>
             (Len(sleeps) = attempt - 1 /\ conflicts + others = attempt)
        /\ pc = "merged" =>
             /\ page_stats.table_created => (table.version = 0 /\ table.rows = df)
             /\ ~page_stats.table_created => table.version >= 1)
  /\ [][/\ pc = "sleep" =>
             /\ pc' = "merge"
             /\ table' = table
             /\ attempt' = attempt + 1
             /\ sleeps' = Append(sleeps, attempt * RETRY_DELAY_SECONDS)
        /\ (pc = "merge" /\ pc' = "merged") =>
             (page_stats'.table_created <=> ~table.exists)]_vars

\* The table was absent during four attempts that conflicted; the call waited
\* 2, 4, 6 and 8 seconds, and the fifth attempt created the table.
C27_Witness ==
  /\ pc = "merged"
  /\ attempt = 5
  /\ conflicts = 4
  /\ sleeps = <<2, 4, 6, 8>>
  /\ page_stats.table_created
  /\ table.rows = df

\* The requests issued for the page at offset k.
RequestsAt(k) == {i \in DOMAIN requests : requests[i] = k}

\* C17: when every attempt to fetch one page fails transiently, at most 3
\* attempts are made, the last failure is raised to ingest_availability, and
\* the run makes no further attempt for that page or a later one.
C17_FetchRetryBounded ==
  /\ tries <= MAX_FETCH_TRIES
  /\ Len(failures) <= MAX_FETCH_TRIES
  /\ \A i \in DOMAIN requests : Cardinality(RequestsAt(requests[i])) <= MAX_FETCH_TRIES
  /\ (/\ Len(failures) = MAX_FETCH_TRIES
      /\ \A i \in DOMAIN failures : failures[i] = "transient") =>
        /\ pc = "raised"
        /\ outcome.status = "raised"
        /\ outcome.stage = "fetch"
        /\ outcome.error = failures[MAX_FETCH_TRIES]
        /\ \A i \in DOMAIN fetched : fetched[i] < page
        /\ Cardinality(RequestsAt(skip)) = MAX_FETCH_TRIES
        /\ \A i \in DOMAIN requests : requests[i] <= skip

\* The three attempts for page 2 have failed transiently after page 1 was
\* merged, and the run has raised.
C17_Witness ==
  /\ pc = "raised"
  /\ page = 2
  /\ merged = <<1>>
  /\ failures = <<"transient", "transient", "transient">>
  /\ Len(requests) = 4

\* C18: a fetch attempt that fails with a 4xx status or with a response that
\* does not parse or validate is the last attempt made for its page: the
\* failure is raised without another request.
C18_NonTransientNotRetried ==
  \A i \in DOMAIN failures :
    failures[i] \in {"http_4xx", "malformed"} =>
      /\ Len(failures) = i
      /\ tries = i
      /\ Cardinality(RequestsAt(skip)) = i

\* C40: the raise RuntimeError after the loop of _merge_to_delta is never
\* reached: a merge call ends by returning or by re-raising the exception
\* of the attempt that failed; when all 5 attempts conflict the caller gets
\* the store's conflict exception of the 5th attempt, after exactly 5
\* attempts and exactly 4 sleeps.
C40_FinalRaiseUnreachable ==
  /\ (pc = "raised" /\ outcome.stage = "merge") =>
       /\ outcome.error # MaxRetriesExceeded
       /\ outcome.error \in StoreErrors
       /\ attempt = Len(sleeps) + 1
  /\ pc = "sleep" => attempt < MAX_MERGE_RETRIES
  /\ (others = 0 /\ conflicts = MAX_MERGE_RETRIES) =>
       /\ pc = "raised"
       /\ outcome.error.conflict
       /\ attempt = MAX_MERGE_RETRIES
       /\ Len(sleeps) = MAX_MERGE_RETRIES - 1

\* A merge call has raised the conflict of its fifth attempt.
C40_Witness ==
  /\ pc = "raised"
  /\ outcome.stage = "merge"
  /\ others = 0
  /\ conflicts = MAX_MERGE_RETRIES
  /\ outcome.error.conflict
  /\ Len(sleeps) = 4

\* The rows of the table when the current run started.
RowsAtStart == IF run <= 1 THEN initTable.rows ELSE runTables[run - 1]

\* The number of records on the pages pgs of the upstream.
RECURSIVE RecordsOn(_)
RecordsOn(pgs) ==
  IF pgs = <<>> THEN 0
  ELSE Cardinality(upstream[Head(pgs)].rows) + RecordsOn(Tail(pgs))

\* The run has returned a summary.
Summarised == pc = "returned" /\ outcome.status = "returned"

\* C32: the summary's rows_written and rows_inserted count the rows the run's
\* merges wrote: a run that left the table exactly as the previous run had
\* left it reports 0 for both, and a first run in which every fetched record
\* became a new row of the table reports all of them in rows_inserted.
C32_SummaryCountsWrites ==
  Summarised =>
    /\ (run = 2 /\ runTables[2] = runTables[1]) =>
          /\ outcome.rows_written = 0
          /\ outcome.rows_inserted = 0
    /\ (run = 1 /\ Cardinality(table.rows) = total_records) =>
          outcome.rows_inserted = total_records

\* C33 as stated: pages_fetched is the number of batches merged, input_rows
\* and api_records are the number of records on the merged pages, and
\* table_created tells whether a merge of the run created the table.
C33_SummaryCounters ==
  Summarised =>
    /\ outcome.pages_fetched = Len(merged)
    /\ outcome.input_rows = RecordsOn(merged)
    /\ outcome.api_records = RecordsOn(merged)
    /\ outcome.table_created = (RowsAtStart = {})

\* C33: in the summary of a run that returned, pages_fetched is the number
\* of pages fetched: the batches merged, and one more when the run ended on
\* an empty page; input_rows and api_records are the number of records on the
\* merged pages; table_created tells whether a merge of the run created the
\* table.
C33_SummaryCounters_Amended ==
  Summarised =>
    /\ outcome.pages_fetched = Len(fetched)
    /\ outcome.pages_fetched =
         Len(merged) + (IF response.rows = {} THEN 1 ELSE 0)
    /\ outcome.input_rows = RecordsOn(merged)
    /\ outcome.api_records = RecordsOn(merged)
    /\ outcome.table_created = (RowsAtStart = {})

\* A second run over an existing table has returned a summary after merging
\* one page and ending on an empty page.
C33_Witness ==
  /\ Summarised
  /\ run = 2
  /\ RowsAtStart # {}
  /\ Len(merged) = 1
  /\ Len(fetched) = 2
  /\ response.rows = {}
  /\ ~outcome.table_created

(***************************************************************************)
(* SpecSeeded: the pipeline of Spec on a table path where an earlier       *)
(* ingestion of other upstream data may have left a table.                 *)
(***************************************************************************)
\* The table before the first run: absent, or one row written at time 0.
SeedTables ==
  {NoTable,
   _write(NoTable, add_metadata_columns({[key |-> 1, data |-> 1]}, 0), "overwrite")}

InitSeeded ==
  /\ initTable \in SeedTables
  /\ table = initTable
  /\ clock = 0
  /\ GhostsIdle
  /\ RunStart
  /\ cpc = [p \in Procs |-> "idle"]
  /\ cdf = [p \in Procs |-> {}]
  /\ cattempt = [p \in Procs |-> 0]
  /\ csnap = [p \in Procs |-> NoTable]
  /\ ccalls = [p \in Procs |-> 0]
  /\ log = <<>>
  /\ AuxIdle

SpecSeeded == InitSeeded /\ [][Next]_vars

(***************************************************************************)
(* Claims checked under SpecSeeded                                         *)
(***************************************************************************)
\* C34: a run that fetches no record (max_pages is 0, or the first page is
\* empty) returns {status: no_data, records_fetched: 0}, has made no merge
\* attempt, and leaves the table as it was; with max_pages = 0 it has issued
\* no request either.  While a run has fetched no record, no step of it
\* changes the table.
NoDataReturned ==
  /\ (pc = "returned" /\ total_records = 0) =>
        /\ outcome = [status |-> "no_data", records_fetched |-> 0]
        /\ merged = <<>>
        /\ attempt = 0
        /\ conflicts = 0
        /\ others = 0
        /\ df = {}
        /\ table.rows = RowsAtStart
        /\ runTables[run] = RowsAtStart
  /\ (pc = "returned" /\ max_pages = <<0>>) =>
        /\ total_records = 0
        /\ requests = <<>>

C34_NoDataRun ==
  /\ []NoDataReturned
  /\ [][(run' = run /\ total_records' = 0) => table' = table]_vars

\* A run has returned no_data from an empty first page, over a table that
\* existed before it.
C34_Witness ==
  /\ pc = "returned"
  /\ total_records = 0
  /\ Len(fetched) = 1
  /\ initTable.exists
  /\ table = initTable


(***************************************************************************)
(* SpecAbort: the pipeline of Spec, whose run may be aborted from outside  *)
(* at any point: KeyboardInterrupt on Ctrl-C in the CLI, SystemExit on     *)
(* SIGTERM, cancellation at server shutdown.  ingest_availability,         *)
(* save_to_delta and _merge_to_delta install no handler and defer nothing: *)
(* "except Exception" (delta.py:92) does not catch a BaseException, which  *)
(* ends the run where it is raised.                                        *)
(***************************************************************************)
\* The control points of a run that has not ended.
Running == {"loop", "fetch", "fetched", "merge", "sleep", "merged", "finish"}

\* The run is aborted where it is: at = the control point it was at.
Interrupt ==
  /\ pc \in Running
  /\ pc' = "aborted"
  /\ outcome' = [status |-> "aborted", at |-> pc, page |-> page]
  /\ runTables' = Append(runTables, table.rows)
  /\ UNCHANGED <<mergeVars, upstream, max_pages, run, page, total_records,
                 total_input_rows, rows_written, rows_inserted, table_created,
                 last_timestamp, tries, response, df, attempt, conflicts, others,
                 sleeps, page_stats, requests, fetched, failures, merged>>
  /\ UNCHANGED <<concVars, auxVars>>

NextAbort == Next \/ Interrupt

SpecAbort == Init /\ [][NextAbort]_vars

(***************************************************************************)
(* Claims checked under SpecAbort                                          *)
(***************************************************************************)
\* C28: a batch handed to the merge engine is at every moment either not
\* applied at all or applied completely: the table changes only in the one
\* step that applies the whole batch of the merge in progress, also after
\* conflicts, retries and exhausted retries; and an abort of the run never
\* takes effect during a merge, only between pages.
C28_BatchAtomicity ==
  [][/\ table' # table =>
          /\ pc = "merge"
          /\ table' = ExecuteMergeTable(table, df)
     /\ pc' = "aborted" => pc \notin {"merge", "sleep"}]_vars


(***************************************************************************)
(* SpecConc: several pipelines call save_to_delta(mode = "merge") on one   *)
(* table path at the same time.  Between the steps of one call the others  *)
(* may run.  The store commits a merge atomically if the table is still at *)
(* the version the pipeline opened, and raises a conflict otherwise.       *)
(***************************************************************************)
ConcBatches == PageRows \ {{}}

\* The table before the pipelines start: absent, or created by an earlier run.
InitialTables ==
  {NoTable} \cup {_write(NoTable, add_metadata_columns(b, 0), "overwrite") :
                    b \in ConcBatches}

\* A store that commits a merge whatever was committed since the table was
\* loaded.
CommitAccepted_always(snap, tbl) == TRUE

\* dt.merge(...).execute(): the store commits the merge if no other commit
\* was made since dt was loaded
CommitAccepted(snap, tbl) == tbl.version = snap.version

\* The exception of a commit that lost the race.
ConflictError == [conflict |-> TRUE, mentions |-> TRUE]

InitConc ==
  /\ GhostsIdle
  /\ IngestIdle
  /\ AuxIdle
  /\ initTable \in InitialTables
  /\ table = initTable
  /\ clock = 0
  /\ cpc = [p \in Procs |-> "idle"]
  /\ cdf = [p \in Procs |-> {}]
  /\ cattempt = [p \in Procs |-> 0]
  /\ csnap = [p \in Procs |-> NoTable]
  /\ ccalls = [p \in Procs |-> 0]
  /\ log = <<>>

\* save_to_delta is called: the batch is stamped, _merge_to_delta starts
ConcBegin(p, batch) ==
  /\ cpc[p] = "idle"
  /\ ccalls[p] < MaxConcCalls
  /\ ccalls' = [ccalls EXCEPT ![p] = @ + 1]
  /\ clock' = clock + 1
  /\ cdf' = [cdf EXCEPT ![p] = add_metadata_columns(batch, clock + 1)]
  /\ cattempt' = [cattempt EXCEPT ![p] = 1]
  /\ cpc' = [cpc EXCEPT ![p] = "open"]
  /\ UNCHANGED <<table, mergeGhosts, ingestVars, auxVars, csnap, initTable, log>>

\* _execute_merge: DeltaTable(s3_path) loads the table, or raises
\* TableNotFoundError
ConcOpen(p) ==
  /\ cpc[p] = "open"
  /\ csnap' = [csnap EXCEPT ![p] = table]
  /\ cpc' = [cpc EXCEPT ![p] = IF table.exists THEN "commit" ELSE "create"]
  /\ UNCHANGED <<mergeVars, ingestVars, auxVars, cdf, cattempt, ccalls, initTable, log>>

\* The call of pipeline p returns: its frame is gone, the log has its batch.
ConcReturn(p) ==
  /\ log' = Append(log, [df |-> cdf[p], attempts |-> cattempt[p], proc |-> p])
  /\ cpc' = [cpc EXCEPT ![p] = "idle"]
  /\ cdf' = [cdf EXCEPT ![p] = {}]
  /\ cattempt' = [cattempt EXCEPT ![p] = 0]
  /\ csnap' = [csnap EXCEPT ![p] = NoTable]

\* _execute_merge, except branch: _write(df, s3_path, "overwrite") and return
ConcCreate(p) ==
  /\ cpc[p] = "create"
  /\ table' = _write(table, cdf[p], "overwrite")
  /\ ConcReturn(p)
  /\ UNCHANGED <<clock, mergeGhosts, ingestVars, auxVars, ccalls, initTable>>

\* dt.merge(...).execute() commits against the version dt was loaded at
ConcCommit(p) ==
  /\ cpc[p] = "commit"
  /\ CommitAccepted(csnap[p], table)
  /\ table' = ExecuteMergeTable(csnap[p], cdf[p])
  /\ ConcReturn(p)
  /\ UNCHANGED <<clock, mergeGhosts, ingestVars, auxVars, ccalls, initTable>>

\* dt.merge(...).execute() finds a newer version and raises; _merge_to_delta
\* sleeps and retries, or re-raises
ConcConflict(p) ==
  /\ cpc[p] = "commit"
  /\ ~CommitAccepted(csnap[p], table)
  /\ cpc' = [cpc EXCEPT ![p] =
               IF ShouldRetryMerge(ConflictError, cattempt[p])
                 THEN "sleep" ELSE "raised"]
  /\ UNCHANGED <<mergeVars, ingestVars, auxVars, cdf, cattempt, csnap, ccalls, initTable,
                 log>>

\* time.sleep(delay), then the next attempt starts at _execute_merge
ConcBackoff(p) ==
  /\ cpc[p] = "sleep"
  /\ cattempt' = [cattempt EXCEPT ![p] = IF RangeHasNext(@) THEN @ + 1 ELSE @]
  /\ cpc' = [cpc EXCEPT ![p] = IF RangeHasNext(cattempt[p]) THEN "open" ELSE "raised"]
  /\ UNCHANGED <<mergeVars, ingestVars, auxVars, cdf, csnap, ccalls, initTable, log>>

NextConc ==
  \/ \E p \in Procs, batch \in ConcBatches : ConcBegin(p, batch)
  \/ \E p \in Procs : ConcOpen(p)
  \/ \E p \in Procs : ConcCreate(p)
  \/ \E p \in Procs : ConcCommit(p)
  \/ \E p \in Procs : ConcConflict(p)
  \/ \E p \in Procs : ConcBackoff(p)

SpecConc == InitConc /\ [][NextConc]_vars

(***************************************************************************)
(* Claims checked under SpecConc                                           *)
(***************************************************************************)
\* The rows after upserting batch d into rows: a stored row whose key comes
\* with another hash is replaced, a row with a new key is added.
Upsert(rows, d) ==
  {t \in rows : \A r \in d : r.key = t.key => r.content_hash = t.content_hash}
    \cup {r \in d : \A t \in rows : t.key = r.key => t.content_hash # r.content_hash}

RECURSIVE SerialResult(_, _)
SerialResult(rows, batches) ==
  IF batches = <<>> THEN rows
  ELSE SerialResult(Upsert(rows, Head(batches).df), Tail(batches))

\* C7: on a table that existed before the pipelines started, under every
\* interleaving, the table is the result of applying the merges that returned
\* success one after another, each one's whole batch, in the order in which
\* they returned.
C7_SerialisableMerges ==
  initTable.exists =>
    /\ table.exists
    /\ table.rows = SerialResult(initTable.rows, log)
    /\ \A i \in DOMAIN log : KeysOf(log[i].df) \subseteq KeysOf(table.rows)

\* Two pipelines have both merged into the existing table, one of them after
\* a conflict and a retry.
C7_Witness ==
  /\ initTable.exists
  /\ Len(log) >= 2
  /\ log[Len(log)].attempts >= 2
  /\ \E i, j \in DOMAIN log :
       /\ log[i].proc # log[j].proc
       /\ KeysOf(log[i].df) # KeysOf(log[j].df)
  /\ \A i \in DOMAIN log : log[i].df \subseteq table.rows

\* C8: under any interleaving of merge calls on one table path, two
\* pipelines that both start while the table does not exist included, the
\* set of merge keys in the table never shrinks.
C8_NoRowLost == [][KeysOf(table.rows) \subseteq KeysOf(table'.rows)]_vars

\* C29: under every sequence and every interleaving of merge calls with the
\* same merge key on one table path, the table holds at most one row per
\* merge key (every batch has pairwise distinct keys).
C29_KeyUniqueness ==
  \A t1, t2 \in table.rows : t1.key = t2.key => t1 = t2

\* Starting from no table, two pipelines have both returned with batches for
\* the same key and content stamped at different times: the first created the
\* table, the second merged into it, and the table holds the first's row only.
C29_Witness ==
  /\ ~initTable.exists
  /\ Len(log) = 2
  /\ log[1].proc # log[2].proc
  /\ KeysOf(log[1].df) = KeysOf(log[2].df)
  /\ log[1].df # log[2].df
  /\ table.version = 1
  /\ table.rows = log[1].df


(***************************************************************************)
(* SpecLive: the control flow of one run of ingest_availability against an *)
(* upstream and a table store that may answer anything at every step: any  *)
(* page or any error to a request, success or any error to a merge         *)
(* attempt.  Only what the run's loops test is kept: max_pages, page,      *)
(* tries, response, attempt.  The run keeps taking steps (weak fairness of *)
(* its next step), as a running Python process does.                       *)
(***************************************************************************)
\* page is compared with max_pages only, and max_pages is None or at most
\* MaxUpstream: beyond MaxUpstream + 1 the value of page decides nothing, and
\* the counter stays there.
PageCap == MaxUpstream + 1

\* ingest_availability has been called: lines 163-173
LiveStart ==
  /\ upstream = <<>>
  /\ max_pages \in MaxPagesChoices
  /\ run = 1
  /\ pc = "loop"
  /\ page = 0
  /\ total_records = 0
  /\ total_input_rows = 0
  /\ rows_written = 0
  /\ rows_inserted = 0
  /\ table_created = FALSE
  /\ last_timestamp = 0
  /\ tries = 0
  /\ response = EmptyPage
  /\ df = {}
  /\ attempt = 0
  /\ conflicts = 0
  /\ others = 0
  /\ sleeps = <<>>
  /\ page_stats = <<>>
  /\ outcome = <<>>
  /\ requests = <<>>
  /\ fetched = <<>>
  /\ failures = <<>>
  /\ merged = <<>>
  /\ runTables = <<>>

InitLive ==
  /\ MergeIdle
  /\ ConcIdle
  /\ AuxIdle
  /\ LiveStart

\* what a step of SpecLive leaves alone
liveFrame ==
  <<mergeVars, concVars, auxVars, upstream, max_pages, run, total_records,
    total_input_rows, rows_written, rows_inserted, table_created,
    last_timestamp, df, conflicts, others, sleeps, page_stats, outcome,
    requests, fetched, failures, merged, runTables>>

\* the while test and page += 1
LiveLoopTest ==
  /\ pc = "loop"
  /\ IF LoopCondition
       THEN /\ page' = IF page < PageCap THEN page + 1 ELSE page
            /\ tries' = 0
            /\ pc' = "fetch"
       ELSE /\ pc' = "finish"
            /\ UNCHANGED <<page, tries>>
  /\ UNCHANGED <<response, attempt, liveFrame>>

\* one attempt of _fetch_availability that returns the page resp
LiveFetchOk(resp) ==
  /\ pc = "fetch"
  /\ tries' = tries + 1
  /\ response' = resp
  /\ pc' = "fetched"
  /\ UNCHANGED <<page, attempt, liveFrame>>

\* one attempt of _fetch_availability that raises e
LiveFetchFail(e) ==
  /\ pc = "fetch"
  /\ tries' = tries + 1
  /\ pc' = IF ShouldRetryFetch(e, tries + 1) THEN "fetch" ELSE "raised"
  /\ UNCHANGED <<page, response, attempt, liveFrame>>

\* if not page_data: break; else save_to_delta enters _merge_to_delta
LiveProcessPage ==
  /\ pc = "fetched"
  /\ IF NoPageData(response)
       THEN /\ pc' = "finish"
            /\ UNCHANGED attempt
       ELSE /\ attempt' = 1
            /\ pc' = "merge"
  /\ UNCHANGED <<page, tries, response, liveFrame>>

\* _merge_to_delta: an attempt whose _execute_merge returns
LiveMergeAttemptOk ==
  /\ pc = "merge"
  /\ pc' = "merged"
  /\ UNCHANGED <<page, tries, response, attempt, liveFrame>>

\* _merge_to_delta: an attempt whose _execute_merge raises e
LiveMergeAttemptFail(e) ==
  /\ pc = "merge"
  /\ pc' = IF ShouldRetryMerge(e, attempt) THEN "sleep" ELSE "raised"
  /\ UNCHANGED <<page, tries, response, attempt, liveFrame>>

\* time.sleep(RETRY_DELAY_SECONDS * attempt), then the next iteration
LiveMergeBackoff ==
  /\ pc = "sleep"
  /\ attempt' = IF RangeHasNext(attempt) THEN attempt + 1 ELSE attempt
  /\ pc' = IF RangeHasNext(attempt) THEN "merge" ELSE "raised"
  /\ UNCHANGED <<page, tries, response, liveFrame>>

\* the totals, then: if not response.hasMore: break
LiveAccumulate ==
  /\ pc = "merged"
  /\ attempt' = 0
  /\ pc' = IF LastPage(response) THEN "finish" ELSE "loop"
  /\ UNCHANGED <<page, tries, response, liveFrame>>

\* lines 215-232: the run returns
LiveFinish ==
  /\ pc = "finish"
  /\ pc' = "returned"
  /\ UNCHANGED <<page, tries, response, attempt, liveFrame>>

NextLive ==
  \/ LiveLoopTest
  \/ \E resp \in Pages : LiveFetchOk(resp)
  \/ \E e \in FetchErrors : LiveFetchFail(e)
  \/ LiveProcessPage
  \/ LiveMergeAttemptOk
  \/ \E e \in StoreErrors : LiveMergeAttemptFail(e)
  \/ LiveMergeBackoff
  \/ LiveAccumulate
  \/ LiveFinish

SpecLive == InitLive /\ [][NextLive]_vars /\ WF_vars(NextLive)

(***************************************************************************)
(* Claims checked under SpecLive                                           *)
(***************************************************************************)
\* C10: every run of ingest_availability terminates, whatever the upstream
\* and the table store answer and whatever max_pages is (None included): the
\* run eventually returns or raises.
C10_RunTerminates == <>(pc \in {"returned", "raised"})


(***************************************************************************)
(* SpecFront: the multi-source front ends.  app/server.py: the bulk        *)
(* endpoint ingest_all_sources and the background task run_bulk_ingest,    *)
(* both through _ingest_source; cli.py: the command seats.  A run of       *)
(* ingest_availability is taken by what it hands to its caller: the stats  *)
(* it returns, or the exception it raises on some page at some stage (its  *)
(* locals, the partial counts, are then gone).                             *)
(***************************************************************************)
Fronts == {"server_bulk", "server_background", "cli"}

\* source_list / ALL_SOURCES / sources
source_list == [i \in 1..NumSources |-> i]

\* str(e) of the exceptions a run can raise
Messages == {"m1", "m2"}

\* ingest_availability: the dicts it returns (the keys the front ends read)
RunStats ==
  {[status |-> "no_data", records_fetched |-> 0]}
    \cup [pages_fetched : 1..MaxFrontPages,
          api_records : 1..MaxFrontPages,
          table_created : BOOLEAN]

\* ingest_availability: the locals when page N fails, the counts of pages
\* 1..N-1
PartialStats(N) ==
  [pages_fetched |-> N, api_records |-> N - 1, table_created |-> N > 1]

\* What one call of ingest_availability does.
RunOutcomes ==
  [kind : {"returned"}, stats : RunStats]
    \cup {[kind |-> "raised", stage |-> st, page |-> N, msg |-> m,
           partial |-> PartialStats(N)] :
            st \in {"fetch", "merge"}, N \in 1..MaxFrontPages, m \in Messages}

\* ingest_availability was not called.
NotRun == [kind |-> "not_run"]

\* IngestResponse(status, source, stats, error); None is <<>>, a value x is <<x>>
IngestResponse(status, source, stats, error) ==
  [status |-> status, source |-> <<source>>, stats |-> stats, error |-> error]

\* _ingest_source: try: _get_api_key(), ingest_availability(...); except
\* Exception as e: IngestResponse(status="error", source, error=str(e))
_ingest_source(source, key, o) ==
  IF ~key
    THEN IngestResponse("error", source, <<>>, <<"SEATS_AERO_API_KEY not configured">>)
    ELSE IF o.kind = "returned"
      THEN IngestResponse("success", source, <<o.stats>>, <<>>)
      ELSE IngestResponse("error", source, <<>>, <<o.msg>>)

\* seats: what the loop body gets from ingest_availability: the stats, or
\* the exception, which carries its message and no source
CliHanded(o) ==
  IF o.kind = "returned"
    THEN [status |-> "success", source |-> <<>>, stats |-> <<o.stats>>, error |-> <<>>]
    ELSE [status |-> "exception", source |-> <<>>, stats |-> <<>>, error |-> <<o.msg>>]

frontFrame == <<mergeVars, ingestVars, concVars, rateVars, hashVars, sensVars, stampVars, writeVars, offsetVars, saveVars, ipreferVars>>

InitFront ==
  /\ MergeIdle
  /\ IngestIdle
  /\ ConcIdle
  /\ IpreferIdle
  /\ SaveIdle
  /\ OffsetIdle
  /\ WriteIdle
  /\ StampIdle
  /\ SensIdle
  /\ RateIdle
  /\ HashIdle
  /\ front \in Fronts
  /\ api_key \in BOOLEAN
  /\ fpc = "start"
  /\ fidx = 0
  /\ results = <<>>
  /\ summary = <<>>
  /\ attempted = <<>>
  /\ runs = <<>>

\* The front end is entered: seats raises ClickException without the API key
\* (cli.py:112-114); the server reads the key inside _ingest_source.
FrontStart ==
  /\ fpc = "start"
  /\ fidx' = 1
  /\ fpc' = IF front = "cli" /\ ~api_key THEN "aborted" ELSE "loop"
  /\ UNCHANGED <<front, api_key, results, summary, attempted, runs, frontFrame>>

\* One iteration of the server's loop: for source in source_list:
\* _ingest_source(...); the bulk endpoint appends the result, the background
\* task drops it.
ServerIngest(o) ==
  /\ front \in {"server_bulk", "server_background"}
  /\ fpc = "loop"
  /\ fidx <= NumSources
  /\ attempted' = Append(attempted, source_list[fidx])
  /\ runs' = Append(runs, IF api_key THEN o ELSE NotRun)
  /\ results' = Append(results, _ingest_source(source_list[fidx], api_key, o))
  /\ fidx' = fidx + 1
  /\ UNCHANGED <<front, api_key, fpc, summary, frontFrame>>

\* One iteration of the loop of seats: stats = ingest_availability(...);
\* all_stats.append(stats).  Nothing catches an exception.
CliIngest(o) ==
  /\ front = "cli"
  /\ fpc = "loop"
  /\ fidx <= NumSources
  /\ attempted' = Append(attempted, source_list[fidx])
  /\ runs' = Append(runs, o)
  /\ results' = Append(results, CliHanded(o))
  /\ IF o.kind = "returned"
       THEN /\ fidx' = fidx + 1
            /\ UNCHANGED fpc
       ELSE /\ fpc' = "aborted"
            /\ UNCHANGED fidx
  /\ UNCHANGED <<front, api_key, summary, frontFrame>>

\* The results with the given status.
WithStatus(st) == {i \in DOMAIN results : results[i].status = st}

\* After the loop: the bulk endpoint's summary, the CLI's summary line.
FrontFinish ==
  /\ fpc = "loop"
  /\ fidx > NumSources
  /\ fpc' = "done"
  /\ summary' =
       IF front = "server_bulk"
         THEN [status |-> "completed",
               total_sources |-> NumSources,
               successful_sources |-> Cardinality(WithStatus("success")),
               failed_sources |-> Cardinality(WithStatus("error")),
               failed_source_names |-> {results[i].source[1] : i \in WithStatus("error")}]
         ELSE IF front = "cli"
           THEN [completed |-> Len(results), of |-> NumSources]
           ELSE <<>>
  /\ UNCHANGED <<front, api_key, fidx, results, attempted, runs, frontFrame>>

NextFront ==
  \/ FrontStart
  \/ \E o \in RunOutcomes : ServerIngest(o)
  \/ \E o \in RunOutcomes : CliIngest(o)
  \/ FrontFinish

SpecFront == InitFront /\ [][NextFront]_vars

(***************************************************************************)
(* Claims checked under SpecFront                                          *)
(***************************************************************************)
\* C14: when a run fails on page N > 1, its caller receives the failure and
\* the partial statistics of the run, the counts accumulated for pages
\* 1..N-1.
C14_PartialStatsReported ==
  \A i \in DOMAIN results :
    (runs[i].kind = "raised" /\ runs[i].page > 1) =>
      /\ results[i].error # <<>>
      /\ results[i].stats = <<runs[i].partial>>

\* C15: in every multi-source front end, when the ingestion of one source
\* raises, ingestion is still attempted for every later source of the list.
C15_LaterSourcesAttempted ==
  (/\ fpc \in {"done", "aborted"}
   /\ \E i \in DOMAIN runs : runs[i].kind = "raised") =>
     attempted = source_list

\* C16: the ingestion of one source hands its caller a success summary, or
\* a failure value that names the source that failed and the stage, fetch
\* or merge, that failed.
C16_FailureNamesSourceAndStage ==
  \A i \in DOMAIN results :
    /\ runs[i].kind = "returned" =>
         /\ results[i].status = "success"
         /\ results[i].stats = <<runs[i].stats>>
    /\ runs[i].kind = "raised" =>
         /\ results[i].source = <<source_list[i]>>
         /\ "stage" \in DOMAIN results[i]
         /\ results[i].stage = runs[i].stage


(***************************************************************************)
(* SpecRate: api/seats_aero.py, the requests of one pipeline through one   *)
(* SeatsAeroClient, with time.  The pipeline calls _request again and      *)
(* again (a next page, or a retry by backoff), some time after the call    *)
(* before returned or raised.  Time is counted in seconds.                 *)
(***************************************************************************)
\* A sleep that may return before its time.
SleepDurations_early(secs) == 0..secs

\* time.sleep(secs): the thread is suspended for at least secs seconds
SleepDurations(secs) == secs..(secs + MaxOversleep)

\* How a request ends: response.json() returns, raise_for_status raises, or
\* httpx.request raises (network error, timeout).
RequestEnds == {"returned", "status_error", "request_error"}

rateFrame == <<mergeVars, ingestVars, concVars, frontVars, hashVars, sensVars, stampVars, writeVars, offsetVars, saveVars, ipreferVars>>

InitRate ==
  /\ MergeIdle
  /\ IngestIdle
  /\ ConcIdle
  /\ IpreferIdle
  /\ SaveIdle
  /\ OffsetIdle
  /\ WriteIdle
  /\ StampIdle
  /\ SensIdle
  /\ FrontIdle
  /\ RateIdle
  /\ HashIdle

\* The pipeline calls client._request, gap seconds after the last call ended
\* (or after it started up).
RateCall(gap) ==
  /\ rpc = "idle"
  /\ Len(starts) < MaxRequests
  /\ rnow' = rnow + gap
  /\ rpc' = "sleep"
  /\ UNCHANGED <<starts, slept, ended, rateFrame>>

\* time.sleep(RATE_LIMIT_SECONDS), then httpx.request(...) starts
RateSleep(d) ==
  /\ rpc = "sleep"
  /\ rnow' = rnow + d
  /\ slept' = Append(slept, d)
  /\ starts' = Append(starts, rnow + d)
  /\ rpc' = "request"
  /\ UNCHANGED <<ended, rateFrame>>

\* the request takes latency seconds and _request returns or raises
RateRespond(latency, end) ==
  /\ rpc = "request"
  /\ rnow' = rnow + latency
  /\ ended' = Append(ended, end)
  /\ rpc' = "idle"
  /\ UNCHANGED <<starts, slept, rateFrame>>

NextRate ==
  \/ \E gap \in 0..MaxGap : RateCall(gap)
  \/ \E d \in SleepDurations(RATE_LIMIT_SECONDS) : RateSleep(d)
  \/ \E latency \in 0..MaxLatency, end \in RequestEnds : RateRespond(latency, end)

SpecRate == InitRate /\ [][NextRate]_vars

(***************************************************************************)
(* Claims checked under SpecRate                                           *)
(***************************************************************************)
\* C19: every HTTP request of _request, a retry after a failed request
\* included, is preceded by one wait of its own of at least
\* RATE_LIMIT_SECONDS, and the starts of two consecutive requests are at
\* least RATE_LIMIT_SECONDS apart, whatever the requests' latency.
C19_RateLimit ==
  /\ Len(slept) = Len(starts)
  /\ \A i \in DOMAIN slept : slept[i] >= RATE_LIMIT_SECONDS
  /\ \A i \in DOMAIN starts :
       i > 1 => starts[i] - starts[i - 1] >= RATE_LIMIT_SECONDS

\* A request that failed at once was followed at once by a retry, and the
\* two requests started exactly RATE_LIMIT_SECONDS apart.
C19_Witness ==
  /\ Len(starts) >= 2
  /\ ended[1] # "returned"
  /\ starts[2] - starts[1] = RATE_LIMIT_SECONDS
  /\ \E i \in DOMAIN starts : i > 1 /\ starts[i] - starts[i - 1] > RATE_LIMIT_SECONDS


(***************************************************************************)
(* SpecHash: storage/hashing.py on rows whose columns have an order.  A    *)
(* row is the sequence of its <<column, value>> pairs as row.items()       *)
(* yields them; column names are distinct.  sha256(...)[:16] is taken as   *)
(* injective: the digest stands for the string that is hashed.             *)
(***************************************************************************)
\* The column names, in the order in which Python sorts them.
ColumnOrder == <<"a", "b", "c", "content_hash", "ingestion_timestamp">>
DataColumns == {"a", "b", "c"}

Rank(c) == CHOOSE i \in DOMAIN ColumnOrder : ColumnOrder[i] = c

\* The sequence without its i-th element.
Without(items, i) ==
  [j \in 1..(Len(items) - 1) |-> IF j < i THEN items[j] ELSE items[j + 1]]

\* Items left in the order in which they come.
SortByKey_unsorted(items) == items

\* sorted(row.items()), and sort_keys=True of json.dumps: the items by
\* ascending column name
RECURSIVE SortByKey(_)
SortByKey(items) ==
  IF items = <<>> THEN <<>>
  ELSE LET m == CHOOSE i \in DOMAIN items :
                  \A j \in DOMAIN items : Rank(items[i][1]) <= Rank(items[j][1])
       IN <<items[m]>> \o SortByKey(Without(items, m))

\* data = {k: v for k, v in sorted(row.items()) if k not in exclude_cols}
RowData(items, exclude_cols) ==
  SelectSeq(SortByKey(items), LAMBDA kv : kv[1] \notin exclude_cols)

\* The values of a cell: an int, a str, None, or an object json cannot
\* serialise (a date, a Timestamp, a Decimal).  text is the digits of the
\* int, the characters of the str, or what str() gives for the object.
HashValues ==
  {[type |-> "int", text |-> "1"],
   [type |-> "int", text |-> "2"],
   [type |-> "str", text |-> "1"],
   [type |-> "object", text |-> "1"],
   [type |-> "none", text |-> "None"]}

\* json.dumps(v, default=str): an int as its digits, None as null, a str in
\* quotes; for anything else default is called, and the str it returns is
\* written in quotes
JsonValue(v) ==
  CASE v.type = "int" -> [quoted |-> "no", text |-> v.text]
    [] v.type = "none" -> [quoted |-> "no", text |-> "null"]
    [] v.type = "str" -> [quoted |-> "yes", text |-> v.text]
    [] OTHER -> [quoted |-> "yes", text |-> v.text]

\* json.dumps(data, sort_keys=True, default=str): the text, as the sequence
\* of its "key": value members
json_dumps(data) ==
  [i \in DOMAIN data |->
     [key |-> SortByKey(data)[i][1], value |-> JsonValue(SortByKey(data)[i][2])]]

\* hashlib.sha256(content.encode()).hexdigest()[:16]
sha256_16(content) == [digest_of |-> content]

\* compute_row_hash on the items of a row
compute_row_hash_items(items, exclude_cols) ==
  sha256_16(json_dumps(RowData(items, exclude_cols)))

\* df[col] = value: the column is replaced where it is, or added at the end
SetColumn(items, col, value) ==
  IF \E i \in DOMAIN items : items[i][1] = col
    THEN [i \in DOMAIN items |-> IF items[i][1] = col THEN <<col, value>> ELSE items[i]]
    ELSE Append(items, <<col, value>>)

\* add_metadata_columns on a one-row frame, called at time t
add_metadata_columns_items(items, t) ==
  LET timed == SetColumn(items, "ingestion_timestamp", t)
  IN SetColumn(timed, "content_hash", compute_row_hash_items(timed, MetadataCols))

\* The rows over the data columns: every order of every subset of columns.
HashRows ==
  UNION {{r \in [1..n -> DataColumns \X HashValues] :
            \A i, j \in 1..n : r[i][1] = r[j][1] => i = j} :
         n \in 0..Cardinality(DataColumns)}

\* permute_columns: the same items in any order
ColumnPermutations(items) ==
  {r \in [DOMAIN items -> {items[i] : i \in DOMAIN items}] :
     \A i, j \in DOMAIN items : r[i] = r[j] => i = j}

hashFrame == <<mergeVars, ingestVars, concVars, frontVars, rateVars, sensVars, stampVars, writeVars, offsetVars, saveVars, ipreferVars>>

InitHash ==
  /\ MergeIdle
  /\ IngestIdle
  /\ ConcIdle
  /\ IpreferIdle
  /\ SaveIdle
  /\ OffsetIdle
  /\ WriteIdle
  /\ StampIdle
  /\ SensIdle
  /\ FrontIdle
  /\ RateIdle
  /\ hrow \in HashRows
  /\ hperm \in ColumnPermutations(hrow)
  /\ htimes \in (1..NumTimes) \X (1..NumTimes)
  /\ hpc = "idle"
  /\ hashes = <<>>
  /\ stamps = <<>>

\* compute_row_hash(row) and compute_row_hash(permute_columns(row))
HashBoth ==
  /\ hpc = "idle"
  /\ hashes' = <<compute_row_hash_items(hrow, {}), compute_row_hash_items(hperm, {})>>
  /\ hpc' = "hashed"
  /\ UNCHANGED <<hrow, hperm, htimes, stamps, hashFrame>>

\* add_metadata_columns on the row, at the first time and at the second
StampBoth ==
  /\ hpc = "hashed"
  /\ stamps' = <<add_metadata_columns_items(hrow, htimes[1]),
                 add_metadata_columns_items(hrow, htimes[2])>>
  /\ hpc' = "stamped"
  /\ UNCHANGED <<hrow, hperm, htimes, hashes, hashFrame>>

NextHash == HashBoth \/ StampBoth

SpecHash == InitHash /\ [][NextHash]_vars

(***************************************************************************)
(* Claims checked under SpecHash                                           *)
(***************************************************************************)
\* The value of column col in a row.
ColumnValue(items, col) ==
  LET i == CHOOSE i \in DOMAIN items : items[i][1] = col IN items[i][2]

ColumnsOf(items) == {items[i][1] : i \in DOMAIN items}

\* C20: compute_row_hash gives the same value for a row and for every
\* permutation of its columns, and add_metadata_columns applied to the same
\* data at two times gives rows with the same content_hash, which differ in
\* ingestion_timestamp at most.
C20_HashDeterminism ==
  /\ hpc \in {"hashed", "stamped"} => hashes[1] = hashes[2]
  /\ hpc = "stamped" =>
       /\ ColumnValue(stamps[1], "content_hash") = ColumnValue(stamps[2], "content_hash")
       /\ ColumnsOf(stamps[1]) = ColumnsOf(stamps[2])
       /\ \A c \in ColumnsOf(stamps[1]) \ {"ingestion_timestamp"} :
            ColumnValue(stamps[1], c) = ColumnValue(stamps[2], c)
       /\ ColumnValue(stamps[1], "ingestion_timestamp") = htimes[1]
       /\ ColumnValue(stamps[2], "ingestion_timestamp") = htimes[2]

\* A three-column row and a different order of its columns were hashed, and
\* stamped at two different times.
C20_Witness ==
  /\ hpc = "stamped"
  /\ Len(hrow) = 3
  /\ hperm # hrow
  /\ htimes[1] # htimes[2]
  /\ stamps[1] # stamps[2]


(***************************************************************************)
(* SpecSens: storage/hashing.py on a row and on the same row with the      *)
(* value of one column changed, under every exclusion list.                *)
(***************************************************************************)
\* exclude = (hash_exclude_cols or []) + ["ingestion_timestamp", "content_hash"]
StampExclude(hash_exclude_cols) == hash_exclude_cols \cup MetadataCols

\* add_metadata_columns(df, hash_exclude_cols) on a one-row frame at time t
add_metadata_columns_excluding(items, hash_exclude_cols, t) ==
  LET timed == SetColumn(items, "ingestion_timestamp", t)
  IN SetColumn(timed, "content_hash",
               compute_row_hash_items(timed, StampExclude(hash_exclude_cols)))

\* The rows of one or two data columns.
SensRows == {r \in HashRows : Len(r) \in 1..2}

sensFrame == <<mergeVars, ingestVars, concVars, frontVars, rateVars, hashVars, stampVars, writeVars, offsetVars, saveVars, ipreferVars>>

InitSens ==
  /\ MergeIdle
  /\ IngestIdle
  /\ ConcIdle
  /\ IpreferIdle
  /\ SaveIdle
  /\ OffsetIdle
  /\ WriteIdle
  /\ StampIdle
  /\ FrontIdle
  /\ RateIdle
  /\ HashIdle
  /\ srow \in SensRows
  /\ scol \in ColumnsOf(srow)
  /\ sval \in HashValues \ {ColumnValue(srow, scol)}
  /\ sexcl \in SUBSET DataColumns
  /\ spc = "idle"
  /\ sout = <<>>

\* compute_row_hash(row, exclude_cols) on the row and on the changed row
SensHash ==
  /\ spc = "idle"
  /\ sout' = <<compute_row_hash_items(srow, sexcl),
               compute_row_hash_items(SetColumn(srow, scol, sval), sexcl)>>
  /\ spc' = "hashed"
  /\ UNCHANGED <<srow, scol, sval, sexcl, sensFrame>>

\* add_metadata_columns(df, hash_exclude_cols) on the row and, at a later
\* time, on the changed row: the content_hash of each
SensStamp ==
  /\ spc = "hashed"
  /\ sout' = <<ColumnValue(add_metadata_columns_excluding(srow, sexcl, 1), "content_hash"),
               ColumnValue(add_metadata_columns_excluding(
                             SetColumn(srow, scol, sval), sexcl, 2), "content_hash")>>
  /\ spc' = "stamped"
  /\ UNCHANGED <<srow, scol, sval, sexcl, sensFrame>>

NextSens == SensHash \/ SensStamp

SpecSens == InitSens /\ [][NextSens]_vars

(***************************************************************************)
(* Claims checked under SpecSens                                           *)
(***************************************************************************)
\* C21: changing the value of a column changes the hash of the row if the
\* column is not in the exclusion set, and leaves the hash as it was if the
\* column is in the exclusion set; so for the content_hash that stamping
\* computes, whose exclusion set holds the two metadata columns as well.
C21_HashSensitivity ==
  spc \in {"hashed", "stamped"} =>
    /\ scol \in sexcl => sout[1] = sout[2]
    /\ scol \notin sexcl => sout[1] # sout[2]


(***************************************************************************)
(* SpecStamp: add_metadata_columns on a frame of several rows.  A frame is *)
(* the sequence of its rows, all with the same columns in the same order.  *)
(***************************************************************************)
\* The column lists of the frames.
FrameColumns == {<<"a">>, <<"a", "b">>, <<"b", "a">>}

\* The frames of 1..MaxFrameRows rows over a column list.
Frames ==
  UNION {{[i \in 1..n |-> [k \in DOMAIN cols |-> <<cols[k], f[i][k]>>]] :
            f \in [1..n -> [DOMAIN cols -> HashValues]]} :
         n \in 1..MaxFrameRows, cols \in FrameColumns}

\* df = df.copy(): the callee works on a copy, the caller's frame stays
CallerFrame(frame, result) == frame

\* add_metadata_columns(df) at time t: every row of the copy
add_metadata_columns_frame(frame, t) ==
  [i \in DOMAIN frame |-> add_metadata_columns_excluding(frame[i], {}, t)]

stampFrame == <<mergeVars, ingestVars, concVars, frontVars, rateVars, hashVars, sensVars, writeVars, offsetVars, saveVars, ipreferVars>>

InitStamp ==
  /\ MergeIdle
  /\ IngestIdle
  /\ ConcIdle
  /\ IpreferIdle
  /\ SaveIdle
  /\ OffsetIdle
  /\ WriteIdle
  /\ FrontIdle
  /\ RateIdle
  /\ HashIdle
  /\ SensIdle
  /\ binput \in Frames
  /\ bdf = binput
  /\ btime \in 1..NumTimes
  /\ bpc = "idle"
  /\ bout = <<>>

\* result = add_metadata_columns(df)
StampFrame ==
  /\ bpc = "idle"
  /\ bout' = add_metadata_columns_frame(bdf, btime)
  /\ bdf' = CallerFrame(bdf, add_metadata_columns_frame(bdf, btime))
  /\ bpc' = "stamped"
  /\ UNCHANGED <<binput, btime, stampFrame>>

NextStamp == StampFrame

SpecStamp == InitStamp /\ [][NextStamp]_vars

(***************************************************************************)
(* Claims checked under SpecStamp                                          *)
(***************************************************************************)
\* C22: add_metadata_columns returns a frame with the same rows in the same
\* order and every original column value unchanged, plus exactly the two
\* columns ingestion_timestamp and content_hash; the input frame is not
\* modified; two rows with identical data get identical hashes and rows with
\* different data get different hashes.
C22_StampPureExtension ==
  bpc = "stamped" =>
    /\ Len(bout) = Len(binput)
    /\ bdf = binput
    /\ \A i \in DOMAIN binput :
         /\ Len(bout[i]) = Len(binput[i]) + 2
         /\ ColumnsOf(bout[i]) = ColumnsOf(binput[i]) \cup MetadataCols
         /\ SubSeq(bout[i], 1, Len(binput[i])) = binput[i]
         /\ ColumnValue(bout[i], "ingestion_timestamp") = btime
    /\ \A i, j \in DOMAIN binput :
         (binput[i] = binput[j]) <=>
           (ColumnValue(bout[i], "content_hash") = ColumnValue(bout[j], "content_hash"))


(***************************************************************************)
(* SpecWrite: one caller issues save_to_delta calls in mode "append" or    *)
(* "overwrite" (or without a mode), with and without add_metadata, one     *)
(* after another on one table path; the store raises nothing.              *)
(***************************************************************************)
\* The mode argument: left out, or one of the two plain modes.
ModeArgs == {<<>>, <<"append">>, <<"overwrite">>}

\* mode: Literal["append", "overwrite", "merge"] = "append"
ModeOf(arg) == IF arg = <<>> THEN "append" ELSE arg[1]

\* A batch that is stamped whatever add_metadata says.
StampIf_always(batch, add_metadata, now) ==
  [df |-> add_metadata_columns(batch, now), stampings |-> 1]

\* if add_metadata: df = add_metadata_columns(df)
StampIf(batch, add_metadata, now) ==
  IF add_metadata
    THEN [df |-> add_metadata_columns(batch, now), stampings |-> 1]
    ELSE [df |-> batch, stampings |-> 0]

writeFrame == <<ingestVars, concVars, frontVars, rateVars, hashVars, sensVars, stampVars, offsetVars, saveVars, ipreferVars>>

InitWrite ==
  /\ MergeIdle
  /\ IngestIdle
  /\ ConcIdle
  /\ IpreferIdle
  /\ SaveIdle
  /\ OffsetIdle
  /\ FrontIdle
  /\ RateIdle
  /\ HashIdle
  /\ SensIdle
  /\ StampIdle
  /\ WriteIdle

\* save_to_delta(df, s3_path, mode, add_metadata=...) with mode not "merge":
\* the else branch, _write(df, s3_path, mode, ...) and rows_written
SaveToDeltaWrite(batch, arg, add_metadata) ==
  /\ calls < MaxWriteCalls
  /\ LET now == clock + 1
         stamped == StampIf(batch, add_metadata, now)
         mode == ModeOf(arg)
     IN /\ clock' = now
        /\ calls' = calls + 1
        /\ prev' = table
        /\ sameBatch' = (calls >= 1 /\ batch = lastBatch)
        /\ lastBatch' = batch
        /\ lastDf' = stamped.df
        /\ stampings' = stamped.stampings
        /\ table' = _write(table, stamped.df, mode)
        /\ writes' = <<mode>>
        /\ lastStats' =
             [rows_written |-> Cardinality(stamped.df)]
               @@ BaseStats(stamped.df, mode, now)
        /\ warg' = arg
        /\ wmeta' = add_metadata
  /\ UNCHANGED <<lastMetrics, writeFrame>>

NextWrite ==
  \E batch \in Batches, arg \in ModeArgs, add_metadata \in BOOLEAN :
    SaveToDeltaWrite(batch, arg, add_metadata)

SpecWrite == InitWrite /\ [][NextWrite]_vars

offsetAuxFrame == <<mergeVars, concVars, frontVars, rateVars, hashVars, sensVars, stampVars, writeVars, saveVars, ipreferVars>>

offsetFrame ==
  <<offsetAuxFrame, upstream, max_pages, run, total_records, total_input_rows,
    rows_written, rows_inserted, table_created, last_timestamp, df, attempt,
    conflicts, others, sleeps, page_stats, outcome, requests, fetched, failures,
    merged, runTables, arg_start_skip, arg_page_size>>

InitOffset ==
  /\ MergeIdle
  /\ ConcIdle
  /\ IpreferIdle
  /\ SaveIdle
  /\ FrontIdle
  /\ RateIdle
  /\ HashIdle
  /\ SensIdle
  /\ StampIdle
  /\ WriteIdle
  /\ LiveStart
  /\ arg_start_skip \in 0..MaxStartSkip
  /\ arg_page_size \in 1..MaxPageSize
  /\ calls_made = <<>>

\* the while test and page += 1
OffsetLoopTest ==
  /\ pc = "loop"
  /\ IF LoopCondition
       THEN /\ page < MaxOffsetPages
            /\ page' = page + 1
            /\ tries' = 0
            /\ pc' = "fetch"
       ELSE /\ pc' = "finish"
            /\ UNCHANGED <<page, tries>>
  /\ UNCHANGED <<response, calls_made, offsetFrame>>

\* client.get_bulk_availability(..., skip=skip, take=page_size)
BulkCall(ok) ==
  [page |-> page,
   skip |-> SkipOf(arg_start_skip, page, arg_page_size),
   take |-> arg_page_size,
   ok |-> ok]

\* one attempt of _fetch_availability that returns the page resp; then
\* if not page_data: break
OffsetFetchOk(resp) ==
  /\ pc = "fetch"
  /\ tries' = tries + 1
  /\ calls_made' = Append(calls_made, BulkCall(TRUE))
  /\ response' = resp
  /\ pc' = IF NoPageData(resp) THEN "finish" ELSE "merge"
  /\ UNCHANGED <<page, offsetFrame>>

\* one attempt of _fetch_availability that raises e
OffsetFetchFail(e) ==
  /\ pc = "fetch"
  /\ tries' = tries + 1
  /\ calls_made' = Append(calls_made, BulkCall(FALSE))
  /\ pc' = IF ShouldRetryFetch(e, tries + 1) THEN "fetch" ELSE "raised"
  /\ UNCHANGED <<page, response, offsetFrame>>

\* save_to_delta returns, then: if not response.hasMore: break
OffsetMergeOk ==
  /\ pc = "merge"
  /\ pc' = IF LastPage(response) THEN "finish" ELSE "loop"
  /\ UNCHANGED <<page, tries, response, calls_made, offsetFrame>>

\* save_to_delta raises
OffsetMergeFail ==
  /\ pc = "merge"
  /\ pc' = "raised"
  /\ UNCHANGED <<page, tries, response, calls_made, offsetFrame>>

\* lines 215-232: the run returns
OffsetFinish ==
  /\ pc = "finish"
  /\ pc' = "returned"
  /\ UNCHANGED <<page, tries, response, calls_made, offsetFrame>>

NextOffset ==
  \/ OffsetLoopTest
  \/ \E resp \in Pages : OffsetFetchOk(resp)
  \/ \E e \in FetchErrors : OffsetFetchFail(e)
  \/ OffsetMergeOk
  \/ OffsetMergeFail
  \/ OffsetFinish

SpecOffset == InitOffset /\ [][NextOffset]_vars

(***************************************************************************)
(* Claims checked under SpecOffset                                         *)
(***************************************************************************)
\* The calls that returned a page, in order.
Succeeded == SelectSeq(calls_made, LAMBDA c : c.ok)

\* C26: the k-th page is requested with skip = start_skip + (k-1) * page_size
\* and take = page_size; a retried fetch requests the same offset again; the
\* offsets of the pages fetched successfully are start_skip, start_skip +
\* page_size, ... in order, none skipped and none requested for two pages.
C26_OffsetProgression ==
  /\ \A i \in DOMAIN calls_made :
       /\ calls_made[i].skip = arg_start_skip + (calls_made[i].page - 1) * arg_page_size
       /\ calls_made[i].take = arg_page_size
       /\ (i > 1 /\ ~calls_made[i - 1].ok) =>
            /\ calls_made[i].page = calls_made[i - 1].page
            /\ calls_made[i].skip = calls_made[i - 1].skip
       /\ (i > 1 /\ calls_made[i - 1].ok) =>
            /\ calls_made[i].page = calls_made[i - 1].page + 1
            /\ calls_made[i].skip = calls_made[i - 1].skip + arg_page_size
  /\ calls_made # <<>> =>
       /\ calls_made[1].page = 1
       /\ calls_made[1].skip = arg_start_skip
  /\ \A j \in DOMAIN Succeeded :
       /\ Succeeded[j].page = j
       /\ Succeeded[j].skip = arg_start_skip + (j - 1) * arg_page_size
  /\ \A i, j \in DOMAIN calls_made :
       (calls_made[i].skip = calls_made[j].skip) <=> (calls_made[i].page = calls_made[j].page)

\* A run with start_skip 2 and page_size 2 has fetched page 1, failed once
\* on page 2, and fetched pages 2 and 3.
C26_Witness ==
  /\ arg_start_skip = 2
  /\ arg_page_size = 2
  /\ Len(Succeeded) = 3
  /\ Len(calls_made) = 4
  /\ ~calls_made[2].ok
  /\ calls_made[4].skip = 6


(***************************************************************************)
(* SpecSave: save_to_delta with every mode and with or without merge keys, *)
(* on frames whose data cells may be null.  add_metadata is left at its    *)
(* default, as every caller in pipeline/ leaves it.  A frame handed to the *)
(* table store is its rows and the columns whose dtype was forced to text. *)
(* The pandas installed is not pinned in the repository: astype(str) turns *)
(* a missing value into the text "None" (pandas 1 and 2) or keeps it       *)
(* missing in a str column (pandas 3); na_as_text is which.                *)
(***************************************************************************)
NaValue == [type |-> "none", text |-> "None"]

SaveKeys == {[type |-> "int", text |-> "1"], [type |-> "int", text |-> "2"]}
SaveCells == {NaValue, [type |-> "str", text |-> "1"]}
SaveRecords == [key : SaveKeys, data : SaveCells]

\* The frames a caller passes: non-empty, one row per merge key.
SaveBatches ==
  {b \in SUBSET SaveRecords :
     b # {} /\ \A r1, r2 \in b : r1.key = r2.key => r1 = r2}

SaveModes == {"append", "overwrite", "merge"}

\* merge_keys: <<>> for None (the default), or the list of key columns
MergeKeyArgs == {<<>>, <<"key">>}

\* compute_row_hash on a row of typed cells: the digest of the JSON text of
\* the columns kept
compute_row_hash_cells(row, exclude_cols) ==
  sha256_16([c \in (DOMAIN row) \ exclude_cols |-> JsonValue(row[c])])

\* add_metadata_columns on a frame of typed cells
add_metadata_columns_cells(frame, t) ==
  {LET row == [key |-> r.key, data |-> r.data, ingestion_timestamp |-> t]
   IN [key |-> row.key,
       data |-> row.data,
       ingestion_timestamp |-> row.ingestion_timestamp,
       content_hash |-> compute_row_hash_cells(row, MetadataCols)] : r \in frame}

\* The columns that can hold a missing value: the merge key is a required
\* field of the models, the metadata columns are set on every row.
NullableCols == {"data"}

\* df[col].isna().all()
AllNa(frame, col) ==
  col \in NullableCols /\ \A r \in frame : r[col].type = "none"

\* One cell of df[col].astype(str)
astype_str(v, as_text) ==
  IF v.type = "none"
    THEN IF as_text THEN [type |-> "str", text |-> "None"] ELSE v
    ELSE [type |-> "str", text |-> v.text]

\* _write, lines 32-34: every all-null column becomes a text column, in place
Widen(frame, as_text) ==
  [rows |-> {[c \in DOMAIN r |->
                IF AllNa(frame, c) THEN astype_str(r[c], as_text) ELSE r[c]] :
             r \in frame},
   text_cols |-> {c \in NullableCols : AllNa(frame, c)}]

\* pa.Table.from_pandas(df): the frame as it is
AsIs(frame) == [rows |-> frame, text_cols |-> {}]

\* The columns of a handed frame for which Arrow infers the null type.
NullTypedCols(h) ==
  {c \in NullableCols \ h.text_cols : \A r \in h.rows : r[c].type = "none"}

\* " AND ".join(... for k in merge_keys) with merge_keys None
TypeErrorRaised == [raised |-> "TypeError", conflict |-> FALSE, mentions |-> FALSE]

\* _execute_merge under _merge_to_delta, the store raising nothing: what is
\* handed to the store, the table afterwards, and the dict returned or the
\* exception that reaches the caller (a TypeError is no conflict: re-raised
\* by the first attempt)
_execute_merge_cells(tbl, frame, merge_keys, as_text) ==
  IF ~tbl.exists
    THEN [handed |-> Widen(frame, as_text),
          table |-> _write(tbl, Widen(frame, as_text).rows, "overwrite"),
          path |-> "create",
          result |-> [rows_inserted |-> Cardinality(frame), table_created |-> TRUE]]
    ELSE IF merge_keys = <<>>
      THEN [handed |-> <<>>,
            table |-> tbl,
            path |-> "none",
            result |-> TypeErrorRaised]
      ELSE [handed |-> AsIs(frame),
            table |-> [exists |-> TRUE,
                       version |-> tbl.version + 1,
                       rows |-> MergeRows(tbl.rows, frame)],
            path |-> "upsert",
            result |-> [merge_completed |-> TRUE, table_created |-> FALSE]]

saveFrame == <<mergeVars, ingestVars, concVars, frontVars, rateVars, hashVars, sensVars, stampVars, writeVars, offsetVars, ipreferVars>>

InitSave ==
  /\ MergeIdle
  /\ IngestIdle
  /\ ConcIdle
  /\ IpreferIdle
  /\ OffsetIdle
  /\ WriteIdle
  /\ StampIdle
  /\ SensIdle
  /\ HashIdle
  /\ FrontIdle
  /\ RateIdle
  /\ na_as_text \in BOOLEAN
  /\ store = NoTable
  /\ saves = 0
  /\ stampedDf = {}
  /\ handed = <<>>
  /\ writePath = "none"
  /\ saveResult = <<>>
  /\ modesUsed = {}
  /\ saveArgs = <<>>

\* save_to_delta(df, s3_path, mode, merge_keys)
SaveToDelta(batch, mode, merge_keys) ==
  /\ saves < MaxSaves
  /\ LET t == saves + 1
         stamped == add_metadata_columns_cells(batch, t)
         stats == BaseStats(stamped, mode, t)
         m == _execute_merge_cells(store, stamped, merge_keys, na_as_text)
     IN /\ saves' = t
        /\ stampedDf' = stamped
        /\ modesUsed' = modesUsed \cup {mode}
        /\ saveArgs' = [mode |-> mode, merge_keys |-> merge_keys]
        /\ IF mode = "merge"
             THEN /\ handed' = m.handed
                  /\ store' = m.table
                  /\ writePath' = m.path
                  /\ saveResult' =
                       IF m.path = "none" THEN m.result ELSE m.result @@ stats
             ELSE /\ handed' = Widen(stamped, na_as_text)
                  /\ store' = _write(store, Widen(stamped, na_as_text).rows, mode)
                  /\ writePath' = mode
                  /\ saveResult' = [rows_written |-> Cardinality(stamped)] @@ stats
  /\ UNCHANGED <<na_as_text, saveFrame>>

NextSave ==
  \E batch \in SaveBatches, mode \in SaveModes, merge_keys \in MergeKeyArgs :
    SaveToDelta(batch, mode, merge_keys)

SpecSave == InitSave /\ [][NextSave]_vars

(***************************************************************************)
(* Claims checked under SpecSave                                           *)
(***************************************************************************)
\* C31: every row of a table written through merge-mode save_to_delta only
\* carries the content_hash the stamper computes for the data columns stored
\* in that row, and an upsert leaves only whole rows: rows of the table as
\* they were and rows of the stamped batch, never a mixture of columns.
C31_StoredHashConsistency ==
  [][modesUsed' = {"merge"} =>
       /\ \A r \in store'.rows :
            r.content_hash = compute_row_hash_cells(r, MetadataCols)
       /\ writePath' = "upsert" =>
            \A r \in store'.rows : r \in store.rows \/ r \in stampedDf']_vars

\* C35: whatever the write path (initial create, append, overwrite, upsert
\* into an existing table), no column whose values are all null in the batch
\* reaches the table store without a text type, and the rows reach it with
\* the content hashes that were stamped on them.
HashesOf(rows) == {[key |-> r.key, content_hash |-> r.content_hash] : r \in rows}

C35_WidenOnEveryPath ==
  handed # <<>> =>
    /\ NullTypedCols(handed) = {}
    /\ HashesOf(handed.rows) = HashesOf(stampedDf)

\* C39: save_to_delta(mode = "merge") without merge_keys raises and leaves
\* the table store as it was, whether the table exists or not.
C39_MergeNeedsKeys ==
  [][(saves' = saves + 1 /\ saveArgs'.mode = "merge" /\ saveArgs'.merge_keys = <<>>) =>
       /\ "raised" \in DOMAIN saveResult'
       /\ handed' = <<>>
       /\ store' = store]_vars


(***************************************************************************)
(* SpecIprefer: pipeline/iprefer.py, one run of ingest_iprefer.  A hotel   *)
(* link is its position in the directory, and the nid of its details is    *)
(* the same number.  A fetch_* call is taken whole: it returns, or it      *)
(* raises after its retries.  A table is the nids it holds, in the order   *)
(* in which they were written; every calendar holds one date.  At least    *)
(* one of include_points and include_cash is set.                          *)
(***************************************************************************)
Min(a, b) == IF a <= b THEN a ELSE b

\* if max_hotels: links = links[:max_hotels]
\* if max_hotels and len(nids) > max_hotels: nids = nids[:max_hotels]
Truncate(items, max_hotels) ==
  IF max_hotels # <<>> /\ max_hotels[1] # 0
    THEN SubSeq(items, 1, Min(max_hotels[1], Len(items)))
    ELSE items

\* One batch of everything that is left.
NextBatch_all(items, done, n) == SubSeq(items, done + 1, Len(items))

\* itertools.batched(items, n): the batch after the first done items
NextBatch(items, done, n) == SubSeq(items, done + 1, Min(done + n, Len(items)))

\* save_to_delta(mode="merge", merge_keys=["nid"]) on the hotels table
MergeNids(tbl, ids) ==
  [exists |-> TRUE,
   nids |-> tbl.nids \o SelectSeq(ids, LAMBDA x : \A i \in DOMAIN tbl.nids : tbl.nids[i] # x)]

\* The hotels table before the run: absent, or holding a hotel of an
\* earlier run that the directory no longer lists.
HotelsTables == {[exists |-> FALSE, nids |-> <<>>], [exists |-> TRUE, nids |-> <<0>>]}

\* _fetch_availability_for_nid: the calendars asked for one hotel, in order
CalendarsOf(nid) ==
  (IF include_points THEN <<[nid |-> nid, is_points |-> TRUE]>> ELSE <<>>)
    \o (IF include_cash THEN <<[nid |-> nid, is_points |-> FALSE]>> ELSE <<>>)

CalendarEvents(cals) ==
  [i \in DOMAIN cals |-> [ev |-> "calendar", nid |-> cals[i].nid, is_points |-> cals[i].is_points]]

\* An exception leaves ingest_iprefer: nothing in pipeline/iprefer.py catches
IprRaise(st) ==
  /\ ipc' = "raised"
  /\ iresult' = [status |-> "raised", stage |-> st]

ipreferArgs == <<directory, arg_max_hotels, include_points, include_cash>>
hotelLocals == <<links, hdone, hbatch, batch_details, total_hotels>>
availLocals == <<nids, cdone, batch_nids, batch_availability>>

ipreferFrame == <<mergeVars, ingestVars, concVars, frontVars, rateVars, hashVars, sensVars, stampVars, writeVars, offsetVars, saveVars>>

InitIprefer ==
  /\ MergeIdle
  /\ IngestIdle
  /\ ConcIdle
  /\ SaveIdle
  /\ OffsetIdle
  /\ WriteIdle
  /\ StampIdle
  /\ SensIdle
  /\ HashIdle
  /\ FrontIdle
  /\ RateIdle
  /\ directory \in {[i \in 1..n |-> i] : n \in 0..MaxHotels}
  /\ arg_max_hotels \in {<<>>} \cup {<<k>> : k \in 0..MaxCap}
  /\ include_points \in BOOLEAN
  /\ include_cash \in BOOLEAN
  /\ include_points \/ include_cash
  /\ hotelsTable \in HotelsTables
  /\ ipc = "idle"
  /\ links = <<>>
  /\ hdone = 0
  /\ hbatch = <<>>
  /\ batch_details = <<>>
  /\ total_hotels = 0
  /\ nids = <<>>
  /\ cdone = 0
  /\ batch_nids = <<>>
  /\ batch_availability = <<>>
  /\ availTable = {}
  /\ events = <<>>
  /\ iresult = <<>>

\* ingest_iprefer calls ingest_iprefer_hotels
IprStart ==
  /\ ipc = "idle"
  /\ ipc' = "links"
  /\ UNCHANGED <<ipreferArgs, hotelLocals, availLocals, hotelsTable, availTable,
                 events, iresult, ipreferFrame>>

\* links = fetch_hotel_links(client), and the cut to max_hotels
FetchLinksOk ==
  /\ ipc = "links"
  /\ links' = Truncate(directory, arg_max_hotels)
  /\ events' = Append(events, [ev |-> "links"])
  /\ ipc' = "hotel_batch"
  /\ UNCHANGED <<ipreferArgs, hdone, hbatch, batch_details, total_hotels, availLocals,
                 hotelsTable, availTable, iresult, ipreferFrame>>

FetchLinksFail ==
  /\ ipc = "links"
  /\ IprRaise("hotels")
  /\ UNCHANGED <<ipreferArgs, hotelLocals, availLocals, hotelsTable, availTable,
                 events, ipreferFrame>>

\* for batch in batched(links, BATCH_SIZE_HOTELS): the next batch, or the end
\* of ingest_iprefer_hotels and the call of ingest_iprefer_availability
HotelBatchNext ==
  /\ ipc = "hotel_batch"
  /\ IF hdone < Len(links)
       THEN /\ hbatch' = NextBatch(links, hdone, BATCH_SIZE_HOTELS)
            /\ ipc' = "details"
       ELSE /\ hbatch' = <<>>
            /\ ipc' = "nids"
  /\ batch_details' = <<>>
  /\ UNCHANGED <<ipreferArgs, links, hdone, total_hotels, availLocals, hotelsTable,
                 availTable, events, iresult, ipreferFrame>>

\* _fetch_all_hotel_details: fetch_hotel_details for the next link of the batch
FetchDetailsOk ==
  /\ ipc = "details"
  /\ LET id == hbatch[Len(batch_details) + 1]
     IN /\ batch_details' = Append(batch_details, id)
        /\ events' = Append(events, [ev |-> "details", id |-> id])
  /\ ipc' = IF Len(batch_details) + 1 = Len(hbatch) THEN "hotel_merge" ELSE "details"
  /\ UNCHANGED <<ipreferArgs, links, hdone, hbatch, total_hotels, availLocals,
                 hotelsTable, availTable, iresult, ipreferFrame>>

FetchDetailsFail ==
  /\ ipc = "details"
  /\ IprRaise("hotels")
  /\ UNCHANGED <<ipreferArgs, hotelLocals, availLocals, hotelsTable, availTable,
                 events, ipreferFrame>>

\* lines 94-105: total_hotels, then save_to_delta of the batch returns
HotelMergeOk ==
  /\ ipc = "hotel_merge"
  /\ total_hotels' = total_hotels + Len(batch_details)
  /\ hotelsTable' = MergeNids(hotelsTable, batch_details)
  /\ events' = Append(events, [ev |-> "merge_hotels", ids |-> batch_details])
  /\ hdone' = hdone + Len(hbatch)
  /\ ipc' = "hotel_batch"
  /\ UNCHANGED <<ipreferArgs, links, hbatch, batch_details, availLocals, availTable,
                 iresult, ipreferFrame>>

\* save_to_delta of the batch raises: nothing of it is in the table
HotelMergeFail ==
  /\ ipc = "hotel_merge"
  /\ total_hotels' = total_hotels + Len(batch_details)
  /\ IprRaise("hotels")
  /\ UNCHANGED <<ipreferArgs, links, hdone, hbatch, batch_details, availLocals,
                 hotelsTable, availTable, events, ipreferFrame>>

\* nids is None: _get_nids_from_hotels_table, then the cut to max_hotels;
\* DeltaTable(hotels_path) raises when there is no table
ReadNids ==
  /\ ipc = "nids"
  /\ IF hotelsTable.exists
       THEN /\ nids' = Truncate(hotelsTable.nids, arg_max_hotels)
            /\ events' = Append(events, [ev |-> "read_nids", ids |-> hotelsTable.nids])
            /\ ipc' = "cal_batch"
            /\ UNCHANGED iresult
       ELSE /\ IprRaise("availability")
            /\ UNCHANGED <<nids, events>>
  /\ UNCHANGED <<ipreferArgs, hotelLocals, cdone, batch_nids, batch_availability,
                 hotelsTable, availTable, ipreferFrame>>

\* for batch_nids in batched(nids, BATCH_SIZE_CALENDAR): the next batch, or
\* both functions return and ingest_iprefer returns the two summaries
CalBatchNext ==
  /\ ipc = "cal_batch"
  /\ IF cdone < Len(nids)
       THEN /\ batch_nids' = NextBatch(nids, cdone, BATCH_SIZE_CALENDAR)
            /\ ipc' = "calendars"
            /\ UNCHANGED iresult
       ELSE /\ batch_nids' = <<>>
            /\ ipc' = "returned"
            /\ iresult' =
                 [status |-> "returned",
                  hotels |-> [hotels_processed |-> total_hotels],
                  availability |->
                    [hotels_processed |-> Len(nids),
                     availability_records |-> Cardinality(availTable)]]
  /\ batch_availability' = <<>>
  /\ UNCHANGED <<ipreferArgs, hotelLocals, nids, cdone, hotelsTable, availTable,
                 events, ipreferFrame>>

\* The number of hotels of the current batch whose calendars are fetched.
NidsFetched == Len(batch_availability) \div Len(CalendarsOf(0))

\* _fetch_availability_for_nid for the next nid of the batch returns
FetchAvailabilityOk ==
  /\ ipc = "calendars"
  /\ LET cals == CalendarsOf(batch_nids[NidsFetched + 1])
     IN /\ batch_availability' = batch_availability \o cals
        /\ events' = events \o CalendarEvents(cals)
  /\ ipc' = IF NidsFetched + 1 = Len(batch_nids) THEN "cal_merge" ELSE "calendars"
  /\ UNCHANGED <<ipreferArgs, hotelLocals, nids, cdone, batch_nids, hotelsTable,
                 availTable, iresult, ipreferFrame>>

\* _fetch_availability_for_nid raises in its first or in its second
\* fetch_calendar: answered calendars before it were fetched
FetchAvailabilityFail(answered) ==
  /\ ipc = "calendars"
  /\ answered < Len(CalendarsOf(0))
  /\ LET cals == CalendarsOf(batch_nids[NidsFetched + 1])
     IN events' = events \o CalendarEvents(SubSeq(cals, 1, answered))
  /\ IprRaise("availability")
  /\ UNCHANGED <<ipreferArgs, hotelLocals, availLocals, hotelsTable, availTable,
                 ipreferFrame>>

\* lines 161-174: save_to_delta of the batch returns
CalMergeOk ==
  /\ ipc = "cal_merge"
  /\ availTable' = availTable \cup {batch_availability[i] : i \in DOMAIN batch_availability}
  /\ events' = Append(events, [ev |-> "merge_availability", ids |-> batch_nids])
  /\ cdone' = cdone + Len(batch_nids)
  /\ ipc' = "cal_batch"
  /\ UNCHANGED <<ipreferArgs, hotelLocals, nids, batch_nids, batch_availability,
                 hotelsTable, iresult, ipreferFrame>>

\* save_to_delta of the batch raises: nothing of it is in the table
CalMergeFail ==
  /\ ipc = "cal_merge"
  /\ IprRaise("availability")
  /\ UNCHANGED <<ipreferArgs, hotelLocals, availLocals, hotelsTable, availTable,
                 events, ipreferFrame>>

NextIprefer ==
  \/ IprStart
  \/ FetchLinksOk
  \/ FetchLinksFail
  \/ HotelBatchNext
  \/ FetchDetailsOk
  \/ FetchDetailsFail
  \/ HotelMergeOk
  \/ HotelMergeFail
  \/ ReadNids
  \/ CalBatchNext
  \/ FetchAvailabilityOk
  \/ \E answered \in 0..1 : FetchAvailabilityFail(answered)
  \/ CalMergeOk
  \/ CalMergeFail

SpecIprefer == InitIprefer /\ [][NextIprefer]_vars

(***************************************************************************)
(* Claims checked under SpecIprefer                                        *)
(***************************************************************************)
\* The positions in events of the events of the kinds given.
EvIdx(kinds) == {i \in DOMAIN events : events[i].ev \in kinds}

\* The number of items merged by the merges of the kind given before
\* position i of events.
RECURSIVE MergedBefore(_, _)
MergedBefore(kind, i) ==
  IF i <= 1 THEN 0
  ELSE MergedBefore(kind, i - 1)
         + (IF events[i - 1].ev = kind THEN Len(events[i - 1].ids) ELSE 0)

\* The items merged by the merges of the kind given, in order.
RECURSIVE MergedIds(_, _)
MergedIds(kind, n) ==
  IF n = 0 THEN <<>>
  ELSE MergedIds(kind, n - 1)
         \o (IF events[n].ev = kind THEN events[n].ids ELSE <<>>)

SetOf(items) == {items[i] : i \in DOMAIN items}

\* The position of nid x in nids.
PosInNids(x) == CHOOSE k \in DOMAIN nids : nids[k] = x

\* C37: in ingest_iprefer every hotel batch is merged before the hotel ids
\* are read from the hotels table, and they are read before the first
\* calendar is fetched; the ids used for availability are those read; when
\* the hotel stage raises there is no availability fetch and no availability
\* merge; in each stage the batches have at most 30 items and a batch is
\* fetched only when all batches before it are merged, so that after a
\* failure in batch j the table holds batches 1..j-1 and nothing of batch j.
C37_StageOrdering ==
  /\ \A r \in EvIdx({"read_nids"}) :
       /\ \A h \in EvIdx({"links", "details", "merge_hotels"}) : h < r
       /\ \A c \in EvIdx({"calendar", "merge_availability"}) : r < c
       /\ MergedIds("merge_hotels", Len(events)) = links
       /\ events[r].ids = hotelsTable.nids
       /\ nids = Truncate(events[r].ids, arg_max_hotels)
  /\ EvIdx({"calendar", "merge_availability"}) # {} => EvIdx({"read_nids"}) # {}
  /\ \A c \in EvIdx({"calendar"}) : events[c].nid \in SetOf(nids)
  /\ (ipc = "raised" /\ iresult.stage = "hotels") =>
       /\ EvIdx({"read_nids", "calendar", "merge_availability"}) = {}
       /\ availTable = {}
  /\ \A m \in EvIdx({"merge_hotels"}) :
       Len(events[m].ids) \in 1..BATCH_SIZE_HOTELS
  /\ \A m \in EvIdx({"merge_availability"}) :
       Len(events[m].ids) \in 1..BATCH_SIZE_CALENDAR
  /\ \A d \in EvIdx({"details"}) :
       MergedBefore("merge_hotels", d)
         = BATCH_SIZE_HOTELS * ((events[d].id - 1) \div BATCH_SIZE_HOTELS)
  /\ \A c \in EvIdx({"calendar"}) :
       MergedBefore("merge_availability", c)
         = BATCH_SIZE_CALENDAR * ((PosInNids(events[c].nid) - 1) \div BATCH_SIZE_CALENDAR)
  /\ MergedIds("merge_hotels", Len(events)) = SubSeq(links, 1, hdone)
  /\ SetOf(hotelsTable.nids) \ {0} = SetOf(SubSeq(links, 1, hdone))
  /\ MergedIds("merge_availability", Len(events)) = SubSeq(nids, 1, cdone)
  /\ {a.nid : a \in availTable} = SetOf(SubSeq(nids, 1, cdone))

\* The availability stage raised in its second batch, after a hotel stage of
\* two batches: the first availability batch is merged, the second is not.
C37_Witness ==
  /\ ipc = "raised"
  /\ iresult.stage = "availability"
  /\ Len(links) > BATCH_SIZE_HOTELS
  /\ hdone = Len(links)
  /\ cdone = BATCH_SIZE_CALENDAR
  /\ Len(nids) > BATCH_SIZE_CALENDAR
  /\ Cardinality(EvIdx({"calendar"})) > BATCH_SIZE_CALENDAR
  /\ {a.nid : a \in availTable} = SetOf(SubSeq(nids, 1, BATCH_SIZE_CALENDAR))

\* C38: with max_hotels = n >= 0 given, ingest_iprefer_hotels and
\* ingest_iprefer_availability fetch and merge at most n hotels, the first n
\* in list order, and report hotels_processed <= n.
C38_MaxHotelsBound ==
  arg_max_hotels # <<>> =>
    /\ Len(links) <= arg_max_hotels[1]
    /\ total_hotels <= arg_max_hotels[1]
    /\ Len(nids) <= arg_max_hotels[1]
    /\ Cardinality(EvIdx({"details"})) <= arg_max_hotels[1]
    /\ EvIdx({"links"}) # {} =>
         links = SubSeq(directory, 1, Min(arg_max_hotels[1], Len(directory)))
    /\ ipc = "returned" =>
         /\ iresult.hotels.hotels_processed <= arg_max_hotels[1]
         /\ iresult.availability.hotels_processed <= arg_max_hotels[1]

(***************************************************************************)
(* SpecIprRate: the requests of api/iprefer.py as the pipeline issues      *)
(* them, one after the other on one httpx.Client.  starts holds the time   *)
(* at which each client.get / client.post starts, ended how each ended,    *)
(* slept the waits of the backoff decorator.                               *)
(***************************************************************************)
\* How a request of fetch_hotel_links / fetch_hotel_details / fetch_calendar
\* ends: the function returns; client.get or raise_for_status raises an
\* httpx.HTTPError (a timeout is one); the parsing raises a ValueError or a
\* validation error, which the decorator does not catch.
IprEnds == {"returned", "http_error", "value_error"}

RECURSIVE TrailingErrors(_)
\* The number of tries of the current call that have failed.
TrailingErrors(ends) ==
  IF ends = <<>> \/ ends[Len(ends)] # "http_error" THEN 0
  ELSE 1 + TrailingErrors(SubSeq(ends, 1, Len(ends) - 1))

\* backoff.expo with the default full jitter: the wait after the k-th failed
\* try is drawn from [0, 2^(k-1)] seconds.
ExpoWaits(k) == 0..Min(2 ^ (k - 1), MaxIprDelay)

\* response = client.get(url): the request starts when the call is made.
IprRequestAt(t) == t

\* The loop of the pipeline calls the next fetch function, gap seconds after
\* the call before returned, and the function issues its request.
IprCall(gap) ==
  /\ rpc = "idle"
  /\ Len(starts) < MaxIprRequests
  /\ rnow' = IprRequestAt(rnow + gap)
  /\ starts' = Append(starts, IprRequestAt(rnow + gap))
  /\ rpc' = "request"
  /\ UNCHANGED <<slept, ended, rateFrame>>

\* The request takes latency seconds.  The function returns, or raises: an
\* httpx.HTTPError is retried until max_tries tries have failed, any other
\* exception and the last HTTPError leave the pipeline, which catches none.
IprRespond(latency, end) ==
  /\ rpc = "request"
  /\ rnow' = rnow + latency
  /\ ended' = Append(ended, end)
  /\ rpc' = IF end = "returned" THEN "idle"
            ELSE IF end = "http_error" /\ TrailingErrors(ended') < IPREFER_MAX_TRIES
                 THEN "backoff"
                 ELSE "raised"
  /\ UNCHANGED <<starts, slept, rateFrame>>

\* The decorator sleeps and calls the function again.
IprBackoff(wait) ==
  /\ rpc = "backoff"
  /\ Len(starts) < MaxIprRequests
  /\ wait \in ExpoWaits(TrailingErrors(ended))
  /\ rnow' = IprRequestAt(rnow + wait)
  /\ slept' = Append(slept, wait)
  /\ starts' = Append(starts, IprRequestAt(rnow + wait))
  /\ rpc' = "request"
  /\ UNCHANGED <<ended, rateFrame>>

NextIprRate ==
  \/ \E gap \in 0..MaxIprDelay : IprCall(gap)
  \/ \E latency \in 0..MaxIprDelay, end \in IprEnds : IprRespond(latency, end)
  \/ \E wait \in 0..MaxIprDelay : IprBackoff(wait)

SpecIprRate == InitRate /\ [][NextIprRate]_vars

(***************************************************************************)
(* Claims checked under SpecIprRate                                        *)
(***************************************************************************)
\* C36: the starts of two consecutive HTTP requests of the iPrefer pipeline,
\* retries included, are at least RATE_LIMIT_SECONDS apart.
C36_IpreferRateLimit ==
  \A i \in 2..Len(starts) : starts[i] >= starts[i - 1] + RATE_LIMIT_SECONDS

====
